---- MODULE Spec2Model ----
(***************************************************************************)
(* Model of the test-healing backend: the agent graph (extract, classify,  *)
(* patch, verify), the healing service that calls it, and the patch        *)
(* applicator that runs approved fixes in the container.                   *)
(*                                                                         *)
(* JavaScript values are tagged records: [t |-> "string", v |-> chars],    *)
(* [t |-> "number", v |-> n], [t |-> "null"], [t |-> "undefined"],         *)
(* [t |-> "boolean", v |-> b], [t |-> "array", v |-> seq],                 *)
(* [t |-> "object", o |-> fields].  A string is a sequence of              *)
(* one-character strings.  A call that may throw returns                   *)
(* [throws |-> TRUE] or [throws |-> FALSE, val |-> v].                     *)
(***************************************************************************)
EXTENDS Integers, Sequences, FiniteSets, TLC

(***************************************************************************)
(* Bounds of the model.                                                    *)
(***************************************************************************)
MaxFailures == 2
MaxPatches == 3

(***************************************************************************)
(* JavaScript values.                                                      *)
(***************************************************************************)
Null == [t |-> "null"]
Undefined == [t |-> "undefined"]
Str(s) == [t |-> "string", v |-> s]
Num(n) == [t |-> "number", v |-> n]
Bool(b) == [t |-> "boolean", v |-> b]
Arr(a) == [t |-> "array", v |-> a]
Obj(o) == [t |-> "object", o |-> o]

Throw == [throws |-> TRUE]
Ret(v) == [throws |-> FALSE, val |-> v]

\* ToBoolean: the falsy values are null, undefined, false, 0 and "".
Truthy(x) ==
  CASE x.t = "null" -> FALSE
    [] x.t = "undefined" -> FALSE
    [] x.t = "boolean" -> x.v
    [] x.t = "number" -> x.v # 0
    [] x.t = "string" -> x.v # <<>>
    [] OTHER -> TRUE

\* x.k : throws a TypeError on null and undefined, undefined when absent.
CanGet(x) == x.t \notin {"null", "undefined"}
Get(x, k) ==
  IF x.t = "object" /\ k \in DOMAIN x.o THEN x.o[k]
  ELSE IF k = "length" /\ x.t \in {"array", "string"} THEN Num(Len(x.v))
  ELSE Undefined

\* variant: the new object has the new fields only
SpreadNewFieldsOnly(x, u) == Obj(u)

\* { ...x, u } : the own fields of x, overridden and extended by u.
Fields(x) == IF x.t = "object" THEN x.o ELSE << >>
Spread(x, u) ==
  Obj([k \in DOMAIN Fields(x) \cup DOMAIN u |->
         IF k \in DOMAIN u THEN u[k] ELSE Fields(x)[k]])

(***************************************************************************)
(* String methods.                                                         *)
(***************************************************************************)
LowerAlphabet ==
  <<"a","b","c","d","e","f","g","h","i","j","k","l","m",
    "n","o","p","q","r","s","t","u","v","w","x","y","z">>
UpperAlphabet ==
  <<"A","B","C","D","E","F","G","H","I","J","K","L","M",
    "N","O","P","Q","R","S","T","U","V","W","X","Y","Z">>
WhiteSpace == {" ", "\n", "\t"}

UpperChar(c) ==
  IF \E i \in 1..26 : LowerAlphabet[i] = c
  THEN UpperAlphabet[CHOOSE i \in 1..26 : LowerAlphabet[i] = c]
  ELSE c
ToUpperCase(s) == [i \in 1..Len(s) |-> UpperChar(s[i])]

LowerChar(c) ==
  IF \E i \in 1..26 : UpperAlphabet[i] = c
  THEN LowerAlphabet[CHOOSE i \in 1..26 : UpperAlphabet[i] = c]
  ELSE c
ToLowerCase(s) == [i \in 1..Len(s) |-> LowerChar(s[i])]

RECURSIVE TrimStart(_)
TrimStart(s) ==
  IF s # <<>> /\ Head(s) \in WhiteSpace THEN TrimStart(Tail(s)) ELSE s
RECURSIVE TrimEnd(_)
TrimEnd(s) ==
  IF s # <<>> /\ s[Len(s)] \in WhiteSpace
  THEN TrimEnd(SubSeq(s, 1, Len(s) - 1)) ELSE s
Trim(s) == TrimEnd(TrimStart(s))

Includes(s, sub) ==
  \E i \in 0..(Len(s) - Len(sub)) : SubSeq(s, i + 1, i + Len(sub)) = sub

\* s.split(sep) for a separator of one character
RECURSIVE Split(_, _)
Split(s, sep) ==
  IF \A i \in 1..Len(s) : s[i] # sep THEN <<s>>
  ELSE LET k == CHOOSE i \in 1..Len(s) :
                  s[i] = sep /\ \A j \in 1..(i - 1) : s[j] # sep
       IN <<SubSeq(s, 1, k - 1)>> \o Split(SubSeq(s, k + 1, Len(s)), sep)

\* s.replace(/'/g, "'\\''")
RECURSIVE EscapeQuotes(_)
EscapeQuotes(s) ==
  IF s = <<>> THEN <<>>
  ELSE (IF Head(s) = "'" THEN <<"'", "\\", "'", "'">> ELSE <<Head(s)>>)
         \o EscapeQuotes(Tail(s))

\* s.match(/failed|error/gi)?.length || 0
FAILED_WORD == <<"f","a","i","l","e","d">>
ERROR_WORD == <<"e","r","r","o","r">>
MatchesAt(s, i, word) ==
  /\ i + Len(word) - 1 <= Len(s)
  /\ ToLowerCase(SubSeq(s, i, i + Len(word) - 1)) = word
RECURSIVE CountFrom(_, _)
CountFrom(s, i) ==
  IF i > Len(s) THEN 0
  ELSE IF MatchesAt(s, i, FAILED_WORD) THEN 1 + CountFrom(s, i + 6)
  ELSE IF MatchesAt(s, i, ERROR_WORD) THEN 1 + CountFrom(s, i + 5)
  ELSE CountFrom(s, i + 1)
CountFailureWords(s) == CountFrom(s, 1)

Digits == <<"0","1","2","3","4","5","6","7","8","9">>
RECURSIVE NumberToString(_)
NumberToString(n) ==
  IF n < 10 THEN <<Digits[n + 1]>>
  ELSE NumberToString(n \div 10) \o <<Digits[(n % 10) + 1]>>

\* String(x) as a template literal `${x}` computes it.
ToStr(x) ==
  CASE x.t = "string" -> x.v
    [] x.t = "number" -> NumberToString(x.v)
    [] x.t = "null" -> <<"n","u","l","l">>
    [] x.t = "undefined" -> <<"u","n","d","e","f","i","n","e","d">>
    [] x.t = "boolean" -> IF x.v THEN <<"t","r","u","e">>
                                 ELSE <<"f","a","l","s","e">>
    [] OTHER -> <<"[","o","b","j","e","c","t","]">>

(***************************************************************************)
(* Text that carries a JSON document.  The model keeps the document the    *)
(* text denotes (or SyntaxError when it denotes none) and whether the text *)
(* is wrapped in a markdown code fence; a fenced text does not parse until *)
(* the fence is stripped.                                                  *)
(***************************************************************************)
SyntaxError == [t |-> "syntax-error"]
JsonText(fenced, doc) == [t |-> "string", fenced |-> fenced, doc |-> doc]

\* content.replace(/```json\n?/g, "").replace(/```\n?/g, "")
StripFences(content) ==
  IF "fenced" \in DOMAIN content THEN [content EXCEPT !.fenced = FALSE]
  ELSE content

\* JSON.parse(content): a value that is not a string is first converted to
\* one ("[object Object]" for a list of content parts), which does not parse.
JSONparse(content) ==
  IF content.t # "string" THEN Throw
  ELSE IF "doc" \notin DOMAIN content THEN Throw
  ELSE IF content.fenced \/ content.doc = SyntaxError THEN Throw
  ELSE Ret(content.doc)

(***************************************************************************)
(* Literals of the program.                                                *)
(***************************************************************************)
UNKNOWN == Str(<<"U","N","K","N","O","W","N">>)
APPROVED == Str(<<"A","P","P","R","O","V","E","D">>)
REJECTED == Str(<<"R","E","J","E","C","T","E","D">>)
PENDING_REVIEW ==
  Str(<<"P","E","N","D","I","N","G","_","R","E","V","I","E","W">>)
ManualReviewNeeded ==
  Str(<<"M","a","n","u","a","l"," ","r","e","v","i","e","w"," ",
        "n","e","e","d","e","d">>)
ReviewPrefix == <<"R","e","v","i","e","w"," ">>

(***************************************************************************)
(* Inputs: what the inference collaborator may answer.                     *)
(***************************************************************************)
FileA == Str(<<"a",".","j","s">>)
FileB == Str(<<"b",".","j","s">>)
FailureA ==
  Obj([file |-> FileA, line |-> Num(10), error_message |-> Str(<<"E","1">>)])
FailureB ==
  Obj([file |-> FileB, line |-> Num(0), error_message |-> Str(<<"E","2">>)])
\* a record without a line number
FailureNoLine == Obj([file |-> FileB, error_message |-> Str(<<"E","3">>)])

\* Lists of extracted items of every length up to the bound: distinct
\* records, identical duplicates, a record without line, a null element.
Alternating(n) == [i \in 1..n |-> IF i % 2 = 1 THEN FailureA ELSE FailureB]
Duplicates(n) == [i \in 1..n |-> FailureA]
Mixed(n) == [i \in 1..n |-> IF i = 1 THEN FailureB ELSE FailureA]
EndingWith(n, x) == [i \in 1..n |-> IF i = n THEN x ELSE FailureA]
ExtractedLists ==
  UNION {{Alternating(n), Duplicates(n)} : n \in 0..MaxFailures}
    \cup {EndingWith(n, Null) : n \in 1..MaxFailures}
    \cup {EndingWith(n, FailureNoLine) : n \in 1..MaxFailures}

\* a response whose content is a list of content parts, not a string
ContentParts == Arr(<<Obj([type |-> Str(<<"t","e","x","t">>)])>>)
Response(content) == Ret([content |-> content])

ExtractOutcomes ==
  {Throw, Response(ContentParts),
   Response(JsonText(FALSE, SyntaxError)),
   Response(JsonText(FALSE, Null)),
   Response(JsonText(FALSE, Bool(FALSE))),
   Response(JsonText(FALSE, Num(42))),
   Response(JsonText(FALSE, Str(<<"n","o","n","e">>))),
   Response(JsonText(FALSE, Obj([error |-> Str(<<"E","1">>)]))),
   Response(JsonText(FALSE, Obj([length |-> Num(0)])))}
    \cup {Response(JsonText(FALSE, Arr(l))) : l \in ExtractedLists}
    \cup {Response(JsonText(TRUE, Arr(Alternating(n)))) : n \in 1..MaxFailures}

LOGIC == <<"L","O","G","I","C">>
ClassifierOutcomes ==
  {Throw, Response(ContentParts),
   Response(Str(LOGIC)),
   Response(Str(<<" ">> \o LOGIC \o <<"\n">>))}

Arrow == "→"
SubstitutionPatch ==
  Obj([patch_instructions |-> Str(<<"x"," ",Arrow," ","y">>),
       required_dashboard_output |-> Str(<<"o","k">>)])
CommandPatch ==
  Obj([patch_instructions |-> Str(<<"n","p","m"," ","i">>),
       required_dashboard_output |-> Str(<<"o","k">>)])
\* an instruction that is a command and has the word "replace" in it
ReplaceCommandPatch ==
  Obj([patch_instructions |->
         Str(<<"s","h"," ","r","e","p","l","a","c","e",".","s","h">>),
       required_dashboard_output |-> Str(<<"o","k">>)])
\* substitutions that put back the text they take out
NoOpPatch ==
  Obj([patch_instructions |-> Str(<<"x"," ",Arrow," ","x">>),
       required_dashboard_output |-> Str(<<"o","k">>)])
NoOpPatternPatch ==
  Obj([patch_instructions |-> Str(<<"a",".","c"," ",Arrow," ","a",".","c">>),
       required_dashboard_output |-> Str(<<"o","k">>)])
PatchOutcomes ==
  {Throw, Response(ContentParts),
   Response(JsonText(FALSE, SyntaxError)),
   Response(JsonText(FALSE, Null)),
   Response(JsonText(TRUE, SubstitutionPatch)),
   Response(JsonText(FALSE, CommandPatch))}

VerifierTexts ==
  {APPROVED.v, REJECTED.v, <<>>,
   <<" ","a","p","p","r","o","v","e","d","\n">>,
   <<"L","G","T","M">>,
   <<"N","O","T"," ">> \o APPROVED.v,
   REJECTED.v \o <<","," ","n","o","t"," ">> \o <<"a","p","p","r","o","v","e","d">>}
VerifierOutcomes ==
  {Throw, Response(ContentParts)} \cup {Response(Str(s)) : s \in VerifierTexts}

(***************************************************************************)
(* Inputs: the arguments of healTestErrors and what the container answers. *)
(***************************************************************************)
OneFailed == <<"1"," ","f","a","i","l","e","d">>
LogTexts ==
  {OneFailed, <<"E","r","r","o","r",":"," ","2"," ","F","A","I","L","E","D">>}
BlankLogs == {Undefined, Str(<<>>), Str(<<" ","\n">>)}

\* the report formats of formatReport, and one it does not know
MARKDOWN == Str(<<"m","a","r","k","d","o","w","n">>)
JSON == Str(<<"j","s","o","n">>)
SUMMARY == Str(<<"s","u","m","m","a","r","y">>)
XML == Str(<<"x","m","l">>)
Container == Str(<<"c","1">>)
WorkDir == Str(<<"/","a","p","p">>)
CommitMessage == Str(<<"f","i","x">>)
DefaultOptions ==
  [autoApply |-> Bool(FALSE), reportFormat |-> JSON, containerName |-> Null,
   workDir |-> Null, commitMessage |-> Null]
OptionSets ==
  {DefaultOptions,
   [DefaultOptions EXCEPT !.reportFormat = XML],
   [autoApply |-> Bool(TRUE), reportFormat |-> JSON,
    containerName |-> Container, workDir |-> WorkDir,
    commitMessage |-> CommitMessage],
   [autoApply |-> Bool(TRUE), reportFormat |-> MARKDOWN,
    containerName |-> Container, workDir |-> WorkDir, commitMessage |-> Null],
   [autoApply |-> Bool(TRUE), reportFormat |-> SUMMARY,
    containerName |-> Null, workDir |-> WorkDir,
    commitMessage |-> CommitMessage]}

\* execPromise resolves with {stdout, stderr} or rejects (exit code not 0,
\* timeout, docker not reachable)
Output(out, err) == Ret([stdout |-> Str(out), stderr |-> Str(err)])
PatchRuns ==
  {Throw, Output(<<>>, <<>>), Output(<<>>, <<"s","e","d",":"," ","e","r","r">>)}
TestRuns ==
  {Throw, Output(<<"a","l","l"," ","o","k">>, <<>>),
   Output(<<"1"," ","f","a","i","l","e","d">>, <<>>),
   Output(<<"2"," ","F","a","i","l","e","d",","," ","1"," ","e","r","r","o","r">>, <<>>)}
NpmTest == <<"n","p","m"," ","t","e","s","t">>
Jest == <<"j","e","s","t">>
PackageJsonRuns ==
  {Throw,
   Ret([stdout |-> JsonText(FALSE, Obj([name |-> Str(<<"p">>)])),
        stderr |-> Str(<<>>)]),
   Ret([stdout |-> JsonText(FALSE, Obj([scripts |-> Obj([test |-> Str(Jest)])])),
        stderr |-> Str(<<>>)])}
GitRuns == {Throw, Output(<<>>, <<>>)}

\* the repository in the container: for each file its text at the last
\* commit (head) and in the working tree (tree)
Quote == "'"
BuggyText == <<Quote, "x", Quote>>
Checkout ==
  [name \in {FileA.v, FileB.v} |->
     LET text == IF name = FileA.v
                   THEN BuggyText \o <<" ", Quote, "a", "b", "c", Quote>>
                   ELSE BuggyText
     IN [head |-> text, tree |-> text]]

\* sed -i "s/find/replace/g" on a text: from left to right every match of
\* the pattern is replaced; in the pattern a dot stands for any character
MatchesPattern(text, i, find) ==
  /\ i + Len(find) - 1 <= Len(text)
  /\ \A j \in DOMAIN find : find[j] = "." \/ find[j] = text[i + j - 1]
RECURSIVE SedFrom(_, _, _)
SedFrom(text, i, script) ==
  IF i > Len(text) THEN <<>>
  ELSE IF MatchesPattern(text, i, script.find)
    THEN script.replace \o SedFrom(text, i + Len(script.find), script)
  ELSE <<text[i]>> \o SedFrom(text, i + 1, script)
SedInPlace(fs, file, script) ==
  IF file.t = "string" /\ file.v \in DOMAIN fs
    THEN [fs EXCEPT ![file.v].tree = SedFrom(@, 1, script)]
    ELSE fs

\* the test command of the repository: as long as a file holds the buggy
\* text a test fails, and the command either exits with a code that is not
\* 0 or reports the failure, on its standard output or on its standard
\* error, and exits with 0
TestRunsOn(fs) ==
  IF \E name \in DOMAIN fs : Includes(fs[name].tree, BuggyText)
    THEN {Throw, Output(OneFailed, <<>>), Output(<<>>, OneFailed)}
    ELSE {Output(<<"a","l","l"," ","o","k">>, <<>>)}

\* every answer the model knows
AnyAnswer ==
  [extractorModel |-> ExtractOutcomes, classifierModel |-> ClassifierOutcomes,
   patchModel |-> PatchOutcomes, verifierModel |-> VerifierOutcomes,
   patchRuns |-> PatchRuns, packageJsonRuns |-> PackageJsonRuns,
   testRuns |-> TestRuns, gitRuns |-> GitRuns]
\* the models used for the runs of the whole service: the extractor finds
\* distinct failures, answers a number or is unreachable, the other models
\* answer or fail
ServiceAnswers ==
  [AnyAnswer EXCEPT
     !.extractorModel =
        {Throw, Response(JsonText(FALSE, Num(42))),
         Response(JsonText(FALSE, Obj([length |-> Num(0)]))),
         Response(JsonText(FALSE, Arr(<<Null>>)))}
          \cup {Response(JsonText(FALSE, Arr(Alternating(n)))) :
                  n \in 0..MaxFailures},
     !.classifierModel = {Response(Str(LOGIC))},
     !.patchModel = {Throw, Response(JsonText(TRUE, SubstitutionPatch)),
                     Response(JsonText(FALSE, CommandPatch))},
     !.verifierModel = {Throw, Response(APPROVED), Response(REJECTED)}]

\* the inference service goes down once the extractor has answered: every
\* call of the three later models fails
DownAnswers ==
  [AnyAnswer EXCEPT
     !.extractorModel =
        {Response(JsonText(FALSE, Arr(Alternating(n)))) : n \in 1..MaxFailures},
     !.classifierModel = {Throw},
     !.patchModel = {Throw},
     !.verifierModel = {Throw}]

\* models that answer in their own words: the classifier names a category
\* the prompt does not list or wraps the category in a sentence, the patch
\* model returns JSON without instructions or with a number for them
StyleCategory == <<"S","T","Y","L","E">>
CategorySentence == <<"I","t"," ","i","s"," ">> \o LOGIC \o <<".">>
PatchWithoutInstructions ==
  Obj([required_dashboard_output |-> Str(<<"o","k">>)])
PatchWithNumber ==
  Obj([patch_instructions |-> Num(1),
       required_dashboard_output |-> Str(<<"o","k">>)])
LooseAnswers ==
  [AnyAnswer EXCEPT
     !.extractorModel =
        {Response(JsonText(FALSE, Arr(Alternating(n)))) : n \in 0..MaxFailures},
     !.classifierModel =
        {Throw, Response(Str(LOGIC)),
         Response(Str(StyleCategory)), Response(Str(CategorySentence))},
     !.patchModel =
        {Throw, Response(JsonText(TRUE, SubstitutionPatch)),
         Response(JsonText(FALSE, PatchWithoutInstructions)),
         Response(JsonText(FALSE, PatchWithNumber))},
     !.verifierModel = {Throw, Response(APPROVED), Response(REJECTED)}]

(***************************************************************************)
(* State.                                                                  *)
(***************************************************************************)
VARIABLES
  pc,                 \* the node or step in control, "END" or "THROWN"
  stageLog,           \* the nodes the graph has invoked, in order
  failures,           \* state.failures (any JSON value the extractor kept)
  classifiedFailures, \* state.classifiedFailures
  generatedPatches,   \* state.generatedPatches
  verifiedPatches,    \* state.verifiedPatches
  finalFixes,         \* state.finalFixes
  processedCount,     \* state.processedCount
  fanout,             \* the node whose promises are in tasks, or "none"
  tasks,              \* one promise per input item of the fan-out
  lastCall,           \* the inference call that settled last
  env,                \* which answers the models and the container give
  testLogs,           \* argument of healTestErrors / runAgentGraph
  options,            \* argument of healTestErrors
  response,           \* the response healTestErrors builds and returns
  shellLog,           \* the commands handed to execPromise, in order
  running,            \* the fixes whose patch command has not settled yet
  applied,            \* applyFixesToContainer: results pushed so far
  tested,             \* applyFixesAndVerify: afterTestResults
  files,              \* the container: per file its committed and working text
  iteration,          \* startHealingLoop: iteration
  testsPassed,        \* startHealingLoop: testsPassed
  finalStatus,        \* the React state finalStatus
  logFile,            \* startHealingLoop: logFile, the log the loop reads next
  loopPc,             \* where startHealingLoop stands
  cycles              \* the requests the server is handling, by request

graphVars ==
  <<stageLog, failures, classifiedFailures, generatedPatches,
    verifiedPatches, finalFixes, processedCount, fanout, tasks, lastCall>>
callVars == <<env, testLogs, options>>
healVars == <<response, shellLog, running, applied, tested>>
loopVars == <<iteration, testsPassed, finalStatus, logFile, loopPc>>
sessionVars == <<loopVars, cycles>>
vars == <<pc, graphVars, callVars, healVars, files, sessionVars>>

NoCall == [node |-> "none"]
Pending == [status |-> "pending"]
Rejected == [status |-> "rejected"]
Fulfilled(v) == [status |-> "fulfilled", value |-> v]

\* a container whose tests run on the files of the working tree: sed works
\* or cannot be started, git works, package.json names no test script
SandboxAnswers ==
  [AnyAnswer EXCEPT
     !.patchRuns = {Throw, Output(<<>>, <<>>)},
     !.packageJsonRuns =
        {Ret([stdout |-> JsonText(FALSE, Obj([name |-> Str(<<"p">>)])),
              stderr |-> Str(<<>>)])},
     !.testRuns = TestRunsOn(files),
     !.gitRuns = {Output(<<>>, <<>>)}]

\* the answers of the environment of this run
Answers ==
  CASE env = "any" -> AnyAnswer
    [] env = "service" -> ServiceAnswers
    [] env = "down" -> DownAnswers
    [] env = "sandbox" -> SandboxAnswers
    [] env = "loose" -> LooseAnswers

\* no healing loop is running and the server handles no request
NoSession ==
  /\ iteration = 0
  /\ testsPassed = FALSE
  /\ finalStatus = Null
  /\ logFile = Undefined
  /\ loopPc = "none"
  /\ cycles = << >>

(***************************************************************************)
(* The graph: entry point and edges.                                       *)
(***************************************************************************)
EntryPoint == "extract"
\* variant: the edge from classify leads straight to verify
EdgesSkippingPatch == [extract |-> "classify", classify |-> "verify"]
Edges == [extract |-> "classify", classify |-> "patch", patch |-> "verify"]
NextNode(n) == IF n \in DOMAIN Edges THEN Edges[n] ELSE "END"

\* initialState of runAgentGraph
InitialState ==
  /\ stageLog = <<>>
  /\ failures = Arr(<<>>)
  /\ classifiedFailures = <<>>
  /\ generatedPatches = <<>>
  /\ verifiedPatches = <<>>
  /\ finalFixes = <<>>
  /\ processedCount = 0
  /\ fanout = "none"
  /\ tasks = <<>>
  /\ lastCall = NoCall

NotCalled ==
  /\ response = Undefined
  /\ shellLog = <<>>
  /\ running = <<>>
  /\ applied = <<>>
  /\ tested = Undefined

\* runAgentGraph(testLogs) called on its own, the models answering anything
Init ==
  /\ pc = EntryPoint
  /\ InitialState
  /\ env = "any"
  /\ testLogs = Str(OneFailed)
  /\ options = DefaultOptions
  /\ NotCalled
  /\ files = Checkout
  /\ NoSession

\* runAgentGraph(testLogs) with models that answer in their own words
InitLoose ==
  /\ pc = EntryPoint
  /\ InitialState
  /\ env = "loose"
  /\ testLogs = Str(OneFailed)
  /\ options = DefaultOptions
  /\ NotCalled
  /\ files = Checkout
  /\ NoSession

(***************************************************************************)
(* Node 1: extractNode.                                                    *)
(***************************************************************************)
ExtractCaught(count) == [failures |-> Arr(<<>>), processedCount |-> count]
ExtractResult(outcome, count) ==
  IF outcome.throws THEN ExtractCaught(count)
  ELSE
    LET raw == outcome.val.content
        content == IF raw.t = "string" THEN StripFences(raw) ELSE raw
        parsed == JSONparse(content)
    IN IF parsed.throws THEN ExtractCaught(count)
       ELSE IF ~CanGet(parsed.val) THEN ExtractCaught(count)
       ELSE LET len == Get(parsed.val, "length") IN
         [failures |-> IF Truthy(parsed.val) THEN parsed.val ELSE Arr(<<>>),
          processedCount |-> IF Truthy(len) THEN len.v ELSE 0]

ExtractNode ==
  /\ pc = "extract"
  /\ \E outcome \in Answers.extractorModel :
       LET r == ExtractResult(outcome, processedCount) IN
         /\ failures' = r.failures
         /\ processedCount' = r.processedCount
         /\ lastCall' = [node |-> "extract", index |-> 0, outcome |-> outcome]
  /\ stageLog' = Append(stageLog, "extract")
  /\ pc' = NextNode("extract")
  /\ UNCHANGED <<classifiedFailures, generatedPatches, verifiedPatches,
                 finalFixes, fanout, tasks>>
  /\ UNCHANGED <<callVars, files, sessionVars, healVars>>

(***************************************************************************)
(* Promise.all over the promises of a fan-out: it rejects as soon as one   *)
(* promise is rejected and resolves, in input order, once all are          *)
(* fulfilled.                                                              *)
(***************************************************************************)
AnyRejected == \E i \in DOMAIN tasks : tasks[i].status = "rejected"
AllFulfilled == \A i \in DOMAIN tasks : tasks[i].status = "fulfilled"
\* variant: the results are collected last input first
ValuesReversed == [i \in DOMAIN tasks |-> tasks[Len(tasks) + 1 - i].value]
Values == [i \in DOMAIN tasks |-> tasks[i].value]

(***************************************************************************)
(* Node 2: classifyNode.                                                   *)
(***************************************************************************)
\* variant: the callback without its catch block
ClassifyOneNoCatch(failure, outcome) ==
  IF outcome.throws THEN Rejected
  ELSE IF outcome.val.content.t # "string" THEN Rejected
  ELSE Fulfilled(Spread(failure,
                   [bug_type |-> Str(Trim(outcome.val.content.v))]))

\* the callback of failures.map once its inference call has settled
ClassifyOne(failure, outcome) ==
  IF outcome.throws THEN Fulfilled(Spread(failure, [bug_type |-> UNKNOWN]))
  ELSE IF outcome.val.content.t # "string"
         THEN Fulfilled(Spread(failure, [bug_type |-> UNKNOWN]))
  ELSE Fulfilled(Spread(failure,
                   [bug_type |-> Str(Trim(outcome.val.content.v))]))

\* The callback reads failure.error_message for the prompt before its try
\* block: on a null element it throws at once and its promise is rejected
\* without an inference call.
ClassifyNode ==
  /\ pc = "classify"
  /\ fanout = "none"
  /\ stageLog' = Append(stageLog, "classify")
  /\ IF Get(failures, "length") = Num(0)
       THEN /\ pc' = NextNode("classify")
            /\ UNCHANGED <<fanout, tasks>>
     ELSE IF failures.t # "array"
       THEN /\ pc' = "THROWN"
            /\ UNCHANGED <<fanout, tasks>>
     ELSE /\ fanout' = "classify"
          /\ tasks' = [i \in 1..Len(failures.v) |->
                         IF CanGet(failures.v[i]) THEN Pending ELSE Rejected]
          /\ pc' = "classify"
  /\ UNCHANGED <<failures, classifiedFailures, generatedPatches,
                 verifiedPatches, finalFixes, processedCount, lastCall>>
  /\ UNCHANGED <<callVars, files, sessionVars, healVars>>

\* an inference call settles; the calls of a stage that has already thrown
\* still settle, their results are never read
ClassifySettle(i) ==
  /\ fanout = "classify"
  /\ tasks[i] = Pending
  /\ \E outcome \in Answers.classifierModel :
       /\ tasks' = [tasks EXCEPT ![i] = ClassifyOne(failures.v[i], outcome)]
       /\ lastCall' = [node |-> "classify", index |-> i, outcome |-> outcome]
  /\ UNCHANGED <<pc, stageLog, failures, classifiedFailures, generatedPatches,
                 verifiedPatches, finalFixes, processedCount, fanout>>
  /\ UNCHANGED <<callVars, files, sessionVars, healVars>>

\* variant: the items that could not be classified are filtered out
ClassifyJoinDroppingUnknown ==
  /\ pc = "classify"
  /\ fanout = "classify"
  /\ AllFulfilled
  /\ classifiedFailures' =
       SelectSeq(Values, LAMBDA v : Get(v, "bug_type") # UNKNOWN)
  /\ fanout' = "none"
  /\ tasks' = <<>>
  /\ lastCall' = NoCall
  /\ pc' = NextNode("classify")
  /\ UNCHANGED <<stageLog, failures, generatedPatches, verifiedPatches,
                 finalFixes, processedCount>>
  /\ UNCHANGED <<callVars, files, sessionVars, healVars>>

\* await Promise.all(classificationPromises)
ClassifyJoin ==
  /\ pc = "classify"
  /\ fanout = "classify"
  /\ IF AnyRejected
       THEN /\ pc' = "THROWN"
            /\ UNCHANGED <<classifiedFailures, fanout, tasks, lastCall>>
       ELSE /\ AllFulfilled
            /\ classifiedFailures' = Values
            /\ fanout' = "none"
            /\ tasks' = <<>>
            /\ lastCall' = NoCall
            /\ pc' = NextNode("classify")
  /\ UNCHANGED <<stageLog, failures, generatedPatches, verifiedPatches,
                 finalFixes, processedCount>>
  /\ UNCHANGED <<callVars, files, sessionVars, healVars>>

(***************************************************************************)
(* Node 3: patchNode.                                                      *)
(***************************************************************************)
LowerManualReviewNeeded ==
  Str(<<"m","a","n","u","a","l"," ","r","e","v","i","e","w"," ",
        "n","e","e","d","e","d">>)
\* variant: the fallback instruction is the fixed text
PatchFallbackFixedText(failure) ==
  Spread(failure,
    [patch_instructions |-> LowerManualReviewNeeded,
     required_dashboard_output |-> ManualReviewNeeded])

PatchFallback(failure) ==
  Spread(failure,
    [patch_instructions |->
       Str(ReviewPrefix \o ToStr(Get(failure, "file")) \o <<":">>
             \o ToStr(Get(failure, "line"))),
     required_dashboard_output |-> ManualReviewNeeded])

\* the callback of classifiedFailures.map once its call has settled
PatchOne(failure, outcome) ==
  IF outcome.throws THEN Fulfilled(PatchFallback(failure))
  ELSE
    LET raw == outcome.val.content
        content == IF raw.t = "string" THEN StripFences(raw) ELSE raw
        parsed == JSONparse(content)
    IN IF parsed.throws THEN Fulfilled(PatchFallback(failure))
       ELSE IF ~CanGet(parsed.val) THEN Fulfilled(PatchFallback(failure))
       ELSE Fulfilled(Spread(failure,
              [patch_instructions |-> Get(parsed.val, "patch_instructions"),
               required_dashboard_output |->
                 Get(parsed.val, "required_dashboard_output")]))

PatchNode ==
  /\ pc = "patch"
  /\ fanout = "none"
  /\ stageLog' = Append(stageLog, "patch")
  /\ IF Len(classifiedFailures) = 0
       THEN /\ pc' = NextNode("patch")
            /\ UNCHANGED <<fanout, tasks>>
       ELSE /\ fanout' = "patch"
            /\ tasks' = [i \in 1..Len(classifiedFailures) |-> Pending]
            /\ pc' = "patch"
  /\ UNCHANGED <<failures, classifiedFailures, generatedPatches,
                 verifiedPatches, finalFixes, processedCount, lastCall>>
  /\ UNCHANGED <<callVars, files, sessionVars, healVars>>

PatchSettle(i) ==
  /\ fanout = "patch"
  /\ tasks[i] = Pending
  /\ \E outcome \in Answers.patchModel :
       /\ tasks' = [tasks EXCEPT ![i] = PatchOne(classifiedFailures[i], outcome)]
       /\ lastCall' = [node |-> "patch", index |-> i, outcome |-> outcome]
  /\ UNCHANGED <<pc, stageLog, failures, classifiedFailures, generatedPatches,
                 verifiedPatches, finalFixes, processedCount, fanout>>
  /\ UNCHANGED <<callVars, files, sessionVars, healVars>>

\* await Promise.all(patchPromises)
PatchJoin ==
  /\ pc = "patch"
  /\ fanout = "patch"
  /\ IF AnyRejected
       THEN /\ pc' = "THROWN"
            /\ UNCHANGED <<generatedPatches, fanout, tasks, lastCall>>
       ELSE /\ AllFulfilled
            /\ generatedPatches' = Values
            /\ fanout' = "none"
            /\ tasks' = <<>>
            /\ lastCall' = NoCall
            /\ pc' = NextNode("patch")
  /\ UNCHANGED <<stageLog, failures, classifiedFailures, verifiedPatches,
                 finalFixes, processedCount>>
  /\ UNCHANGED <<callVars, files, sessionVars, healVars>>

(***************************************************************************)
(* Node 4: verifyNode.                                                     *)
(***************************************************************************)
\* variant: approved unless the answer says REJECTED
IsApprovedUnlessRejected(content) ==
  ~Includes(ToUpperCase(Trim(content)), REJECTED.v)

\* response.content.trim().toUpperCase().includes("APPROVED")
IsApproved(content) == Includes(ToUpperCase(Trim(content)), APPROVED.v)

\* variant: a call that fails counts as a rejection
VerifyOneRejectingOnFailure(patch, outcome) ==
  IF outcome.throws \/ outcome.val.content.t # "string"
    THEN Fulfilled(Spread(patch, [verification_status |-> REJECTED]))
  ELSE Fulfilled(Spread(patch,
         [verification_status |->
            IF IsApproved(outcome.val.content.v) THEN APPROVED ELSE REJECTED]))

\* the callback of generatedPatches.map once its call has settled
VerifyOne(patch, outcome) ==
  IF outcome.throws
    THEN Fulfilled(Spread(patch, [verification_status |-> PENDING_REVIEW]))
  ELSE IF outcome.val.content.t # "string"
    THEN Fulfilled(Spread(patch, [verification_status |-> PENDING_REVIEW]))
  ELSE Fulfilled(Spread(patch,
         [verification_status |->
            IF IsApproved(outcome.val.content.v) THEN APPROVED ELSE REJECTED]))

VerifyNode ==
  /\ pc = "verify"
  /\ fanout = "none"
  /\ stageLog' = Append(stageLog, "verify")
  /\ IF Len(generatedPatches) = 0
       THEN /\ pc' = NextNode("verify")
            /\ UNCHANGED <<fanout, tasks>>
       ELSE /\ fanout' = "verify"
            /\ tasks' = [i \in 1..Len(generatedPatches) |-> Pending]
            /\ pc' = "verify"
  /\ UNCHANGED <<failures, classifiedFailures, generatedPatches,
                 verifiedPatches, finalFixes, processedCount, lastCall>>
  /\ UNCHANGED <<callVars, files, sessionVars, healVars>>

VerifySettle(i) ==
  /\ fanout = "verify"
  /\ tasks[i] = Pending
  /\ \E outcome \in Answers.verifierModel :
       /\ tasks' = [tasks EXCEPT ![i] = VerifyOne(generatedPatches[i], outcome)]
       /\ lastCall' = [node |-> "verify", index |-> i, outcome |-> outcome]
  /\ UNCHANGED <<pc, stageLog, failures, classifiedFailures, generatedPatches,
                 verifiedPatches, finalFixes, processedCount, fanout>>
  /\ UNCHANGED <<callVars, files, sessionVars, healVars>>

\* variant: the filter keeps everything that is not REJECTED
IsNotRejectedPatch(v) == Get(v, "verification_status") # REJECTED

\* verified.filter((v) => v.verification_status === "APPROVED")
IsApprovedPatch(v) == Get(v, "verification_status") = APPROVED

\* await Promise.all(verificationPromises), then the filter
VerifyJoin ==
  /\ pc = "verify"
  /\ fanout = "verify"
  /\ IF AnyRejected
       THEN /\ pc' = "THROWN"
            /\ UNCHANGED <<verifiedPatches, finalFixes, fanout, tasks, lastCall>>
       ELSE /\ AllFulfilled
            /\ verifiedPatches' = Values
            /\ finalFixes' = SelectSeq(Values, IsApprovedPatch)
            /\ fanout' = "none"
            /\ tasks' = <<>>
            /\ lastCall' = NoCall
            /\ pc' = NextNode("verify")
  /\ UNCHANGED <<stageLog, failures, classifiedFailures, generatedPatches,
                 processedCount>>
  /\ UNCHANGED <<callVars, files, sessionVars, healVars>>

(***************************************************************************)
(* healingService.js: healTestErrors.                                      *)
(***************************************************************************)
\* { ...a, ...b } on the records of the model
Merge(a, b) ==
  [k \in DOMAIN a \cup DOMAIN b |-> IF k \in DOMAIN b THEN b[k] ELSE a[k]]

\* (approved / patched * 100).toFixed(2) + "%"
TwoDigits(n) == <<Digits[(n \div 10) + 1], Digits[(n % 10) + 1]>>
\* variant: the digits after the second decimal are cut off
PercentageTruncated(approved, patched) ==
  LET hundredths == (approved * 10000) \div patched
  IN NumberToString(hundredths \div 100) \o <<".">>
       \o TwoDigits(hundredths % 100) \o <<"%">>
Percentage(approved, patched) ==
  LET hundredths == (2 * approved * 10000 + patched) \div (2 * patched)
  IN NumberToString(hundredths \div 100) \o <<".">>
       \o TwoDigits(hundredths % 100) \o <<"%">>
NotApplicable == <<"N","/","A">>

Statistics ==
  Obj([totalFailures |-> Get(failures, "length"),
       classified |-> Num(Len(classifiedFailures)),
       patched |-> Num(Len(generatedPatches)),
       verified |-> Num(Len(verifiedPatches)),
       approved |-> Num(Len(finalFixes)),
       approvalRate |->
         IF Len(generatedPatches) > 0
           THEN Str(Percentage(Len(finalFixes), Len(generatedPatches)))
           ELSE Str(NotApplicable)])

WorkflowResult ==
  Obj([failures |-> failures,
       classifiedFailures |-> Arr(classifiedFailures),
       generatedPatches |-> Arr(generatedPatches),
       verifiedPatches |-> Arr(verifiedPatches),
       finalFixes |-> Arr(finalFixes),
       processedCount |-> Num(processedCount)])

(***************************************************************************)
(* healingService.js: the three report formats.                            *)
(***************************************************************************)

\* calculatePriority: priorities[bugType] || "MEDIUM"
CRITICAL == Str(<<"C","R","I","T","I","C","A","L">>)
HIGH == Str(<<"H","I","G","H">>)
MEDIUM == Str(<<"M","E","D","I","U","M">>)
LOW == Str(<<"L","O","W">>)
Priorities ==
  <<[key |-> <<"S","Y","N","T","A","X">>, priority |-> CRITICAL],
    [key |-> <<"T","Y","P","E","_","E","R","R","O","R">>, priority |-> HIGH],
    [key |-> <<"I","M","P","O","R","T">>, priority |-> HIGH],
    [key |-> <<"R","U","N","T","I","M","E">>, priority |-> CRITICAL],
    [key |-> <<"L","O","G","I","C">>, priority |-> HIGH],
    [key |-> <<"C","O","N","F","I","G">>, priority |-> MEDIUM],
    [key |-> <<"I","N","D","E","N","T","A","T","I","O","N">>, priority |-> LOW],
    [key |-> <<"L","I","N","T","I","N","G">>, priority |-> LOW]>>
CalculatePriority(bugType) ==
  LET key == ToStr(bugType) IN
    IF \E i \in DOMAIN Priorities : Priorities[i].key = key
      THEN Priorities[CHOOSE i \in DOMAIN Priorities :
                        Priorities[i].key = key].priority
      ELSE MEDIUM

\* x.map(...), x.forEach(...), x.filter(...) exist on arrays only
IsArray(x) == x.t = "array"
Items(x) == IF IsArray(x) THEN x.v ELSE <<>>

JsonExtracted(f) ==
  Obj([file |-> Get(f, "file"), line |-> Get(f, "line"),
       error |-> Get(f, "error_message")])
JsonClassified(c) ==
  Obj([file |-> Get(c, "file"), line |-> Get(c, "line"),
       type |-> Get(c, "bug_type"), error |-> Get(c, "error_message")])
JsonPatched(p) ==
  Obj([file |-> Get(p, "file"), line |-> Get(p, "line"),
       type |-> Get(p, "bug_type"), fix |-> Get(p, "patch_instructions"),
       expected_output |-> Get(p, "required_dashboard_output")])
JsonVerified(v) ==
  Obj([file |-> Get(v, "file"), line |-> Get(v, "line"),
       status |-> Get(v, "verification_status"),
       fix |-> Get(v, "patch_instructions")])
JsonApproved(a) ==
  Obj([file |-> Get(a, "file"), line |-> Get(a, "line"),
       type |-> Get(a, "bug_type"), fix |-> Get(a, "patch_instructions"),
       priority |-> CalculatePriority(Get(a, "bug_type"))])

\* formatJsonReport
FormatJsonReport(result) ==
  IF \E k \in {"failures", "classifiedFailures", "generatedPatches",
               "verifiedPatches", "finalFixes"} : ~IsArray(Get(result, k))
    THEN Throw
    ELSE Ret(Obj(
      [extracted |-> Arr([i \in DOMAIN Get(result, "failures").v |->
           JsonExtracted(Get(result, "failures").v[i])]),
       classified |->
         Arr([i \in DOMAIN Get(result, "classifiedFailures").v |->
           JsonClassified(Get(result, "classifiedFailures").v[i])]),
       patched |-> Arr([i \in DOMAIN Get(result, "generatedPatches").v |->
           JsonPatched(Get(result, "generatedPatches").v[i])]),
       verified |-> Arr([i \in DOMAIN Get(result, "verifiedPatches").v |->
           JsonVerified(Get(result, "verifiedPatches").v[i])]),
       approved |-> Arr([i \in DOMAIN Get(result, "finalFixes").v |->
           JsonApproved(Get(result, "finalFixes").v[i])])]))

\* formatMarkdownReport.  The text is kept as the sequence of its parts: the
\* five lines of the summary, then one part per fix of the section of the
\* approved fixes, then one line per patch of the section of the rejected
\* patches; a section that lists nothing is left out of the text.
MarkdownText(parts) == [t |-> "string", markdown |-> parts]
SummaryLine(label, n) == [part |-> "count", label |-> label, n |-> ToStr(n)]
ApprovedPart(fix, idx) ==
  [part |-> "approved", number |-> NumberToString(idx),
   file |-> ToStr(Get(fix, "file")), line |-> ToStr(Get(fix, "line")),
   type |-> ToStr(Get(fix, "bug_type")),
   error |-> ToStr(Get(fix, "error_message")),
   fix |-> ToStr(Get(fix, "patch_instructions")),
   expected |-> ToStr(Get(fix, "required_dashboard_output"))]
RejectedLine(patch, idx) ==
  [part |-> "rejected", number |-> NumberToString(idx),
   file |-> ToStr(Get(patch, "file")), line |-> ToStr(Get(patch, "line")),
   error |-> ToStr(Get(patch, "error_message"))]
\* variant: every patch that was not approved counts as rejected
IsUnapprovedPatch(v) == Get(v, "verification_status") # APPROVED
IsRejectedPatch(v) == Get(v, "verification_status") = REJECTED
FormatMarkdownReport(result) ==
  IF ~IsArray(Get(result, "verifiedPatches")) THEN Throw
  ELSE
    LET fixes == Items(Get(result, "finalFixes"))
        rejected == SelectSeq(Get(result, "verifiedPatches").v, IsRejectedPatch)
    IN Ret(MarkdownText(
         <<SummaryLine("Total Failures", Get(Get(result, "failures"), "length")),
           SummaryLine("Classified",
                       Get(Get(result, "classifiedFailures"), "length")),
           SummaryLine("Patches Generated",
                       Get(Get(result, "generatedPatches"), "length")),
           SummaryLine("Patches Verified",
                       Get(Get(result, "verifiedPatches"), "length")),
           SummaryLine("Approved Fixes",
                       Get(Get(result, "finalFixes"), "length"))>>
         \o [i \in DOMAIN fixes |-> ApprovedPart(fixes[i], i)]
         \o [i \in DOMAIN rejected |-> RejectedLine(rejected[i], i)]))

\* formatSummaryReport
FailuresByType(classified) ==
  LET keys == {ToStr(Get(classified[i], "bug_type")) : i \in DOMAIN classified}
  IN [k \in keys |->
        Num(Cardinality({i \in DOMAIN classified :
                           ToStr(Get(classified[i], "bug_type")) = k}))]
SummaryApproved(f) ==
  Obj([file |-> Get(f, "file"), line |-> Get(f, "line"),
       type |-> Get(f, "bug_type")])
ApprovalRate(result) ==
  LET patched == Get(Get(result, "generatedPatches"), "length")
      approved == Get(Get(result, "finalFixes"), "length")
  IN IF patched.v > 0 THEN Str(Percentage(approved.v, patched.v))
     ELSE Str(NotApplicable)
FormatSummaryReport(result) ==
  IF ~IsArray(Get(result, "classifiedFailures"))
       \/ ~IsArray(Get(result, "finalFixes"))
    THEN Throw
    ELSE Ret(Obj(
      [totals |->
         Obj([extracted |-> Get(Get(result, "failures"), "length"),
              classified |-> Get(Get(result, "classifiedFailures"), "length"),
              patched |-> Get(Get(result, "generatedPatches"), "length"),
              verified |-> Get(Get(result, "verifiedPatches"), "length"),
              approved |-> Get(Get(result, "finalFixes"), "length")]),
       failuresByType |->
         Obj(FailuresByType(Get(result, "classifiedFailures").v)),
       approvalRate |-> ApprovalRate(result),
       approvedFixes |->
         Arr([i \in DOMAIN Get(result, "finalFixes").v |->
           SummaryApproved(Get(result, "finalFixes").v[i])])]))

\* formatReport: the switch on the format
FormatReport(result, format) ==
  CASE format = MARKDOWN -> FormatMarkdownReport(result)
    [] format = JSON -> FormatJsonReport(result)
    [] format = SUMMARY -> FormatSummaryReport(result)
    [] OTHER -> FormatJsonReport(result)

\* variant: the guard tests only that the logs are given
HealTestErrorsWithoutTrim ==
  /\ pc = "heal"
  /\ IF ~Truthy(testLogs)
       THEN /\ response' = Obj([success |-> Bool(FALSE), results |-> Null])
            /\ pc' = "returned"
       ELSE /\ pc' = EntryPoint
            /\ UNCHANGED response
  /\ UNCHANGED <<graphVars, callVars, files, sessionVars, shellLog, running,
               applied, tested>>

\* the guard on the logs; a call that passes it runs the graph
HealTestErrors ==
  /\ pc = "heal"
  /\ IF ~Truthy(testLogs) \/ Trim(testLogs.v) = <<>>
       THEN /\ response' = Obj([success |-> Bool(FALSE), results |-> Null])
            /\ pc' = "returned"
       ELSE /\ pc' = EntryPoint
            /\ UNCHANGED response
  /\ UNCHANGED <<graphVars, callVars, files, sessionVars, shellLog, running,
               applied, tested>>

\* the object the catch block of healTestErrors returns
CaughtResponse ==
  Obj([success |-> Bool(FALSE), results |-> Null,
       error |-> Str(<<"e","r","r">>)])

\* variant: the auto-apply branch does not ask for a container
HealRespondAnyContainer ==
  /\ pc = "END"
  /\ LET report == FormatReport(WorkflowResult, options.reportFormat) IN
       IF report.throws
         THEN /\ response' = CaughtResponse
              /\ pc' = "returned"
         ELSE
           /\ response' =
                Obj(Merge(
                  [success |-> Bool(TRUE), statistics |-> Statistics,
                   results |-> WorkflowResult, report |-> report.val,
                   autoApply |-> options.autoApply],
                  IF Truthy(options.autoApply) /\ Len(finalFixes) = 0
                    THEN [autoApplyResult |-> Obj([success |-> Bool(FALSE)])]
                    ELSE << >>))
           /\ pc' = IF /\ Truthy(options.autoApply)
                       /\ Len(finalFixes) > 0
                       /\ Truthy(options.workDir)
                      THEN "apply" ELSE "returned"
  /\ UNCHANGED <<graphVars, callVars, files, sessionVars, shellLog, running,
               applied, tested>>

\* runAgentGraph has returned: the report, the response, then the auto-apply
\* branch; an exception of formatReport is caught like one of the graph
HealRespond ==
  /\ pc = "END"
  /\ LET report == FormatReport(WorkflowResult, options.reportFormat) IN
       IF report.throws
         THEN /\ response' = CaughtResponse
              /\ pc' = "returned"
         ELSE
           /\ response' =
                Obj(Merge(
                  [success |-> Bool(TRUE), statistics |-> Statistics,
                   results |-> WorkflowResult, report |-> report.val,
                   autoApply |-> options.autoApply],
                  IF Truthy(options.autoApply) /\ Len(finalFixes) = 0
                    THEN [autoApplyResult |-> Obj([success |-> Bool(FALSE)])]
                    ELSE << >>))
           /\ pc' = IF /\ Truthy(options.autoApply)
                       /\ Len(finalFixes) > 0
                       /\ Truthy(options.containerName)
                       /\ Truthy(options.workDir)
                      THEN "apply" ELSE "returned"
  /\ UNCHANGED <<graphVars, callVars, files, sessionVars, shellLog, running,
               applied, tested>>

\* runAgentGraph has thrown: the catch block of healTestErrors
HealCatch ==
  /\ pc = "THROWN"
  /\ response' = CaughtResponse
  /\ pc' = "returned"
  /\ UNCHANGED <<graphVars, callVars, files, sessionVars, shellLog, running,
               applied, tested>>

(***************************************************************************)
(* patchApplicator.js.                                                     *)
(***************************************************************************)
REPLACE_WORD == <<"r","e","p","l","a","c","e">>
WARNING_WORD == <<"w","a","r","n","i","n","g">>

\* the script handed to sed: the command line puts it between double
\* quotes, so the single quotes around the two texts are part of the script
Quoted(text) == <<"'">> \o text \o <<"'">>
SedScript(oldCode, newCode) ==
  [find |-> Quoted(EscapeQuotes(oldCode)),
   replace |-> Quoted(EscapeQuotes(newCode)), flags |-> <<"g">>]

\* executePatchInstruction, applyCodePatch, executeShellCommand: the command
\* handed to execPromise, or an exception before any command is built
PatchCommand(containerName, filePath, instruction) ==
  IF instruction.t # "string" THEN Throw
  ELSE IF \/ Includes(instruction.v, <<Arrow>>)
          \/ Includes(ToLowerCase(instruction.v), REPLACE_WORD)
    THEN LET parts == Split(instruction.v, Arrow) IN
      IF Len(parts) # 2 THEN Throw
      ELSE Ret([op |-> "sed", container |-> containerName,
                script |-> SedScript(Trim(parts[1]), Trim(parts[2])),
                file |-> filePath])
  ELSE Ret([op |-> "exec", container |-> containerName,
            command |-> instruction.v])

\* whether the command, once run, makes executePatchInstruction return
PatchRunSucceeds(cmd, run) ==
  IF run.throws THEN FALSE
  ELSE IF cmd.op = "sed"
    THEN ~(Truthy(run.val.stderr) /\ ~Includes(run.val.stderr.v, WARNING_WORD))
  ELSE TRUE

\* variant: every verified patch is handed over
AllVerifiedPatches == verifiedPatches

\* the fixes healTestErrors hands to applyFixesAndVerify
FixesToApply == finalFixes

ApplyOutcome(fix, status) ==
  [file |-> Get(fix, "file"), line |-> Get(fix, "line"), status |-> status]

\* variant: the loop does not wait for the command of the fix before it
\* turns to the next fix
ApplyFixUnawaited ==
  /\ pc = "apply"
  /\ Len(applied) + Len(running) < Len(FixesToApply)
  /\ LET k == Len(applied) + Len(running) + 1
         fix == FixesToApply[k]
         cmd == PatchCommand(options.containerName, Get(fix, "file"),
                             Get(fix, "patch_instructions"))
     IN IF cmd.throws
          THEN /\ applied' = Append(applied, ApplyOutcome(fix, "FAILED"))
               /\ UNCHANGED <<shellLog, running>>
          ELSE /\ shellLog' = Append(shellLog, Merge(cmd.val, [fix |-> fix]))
               /\ running' = Append(running, k)
               /\ UNCHANGED applied
  /\ UNCHANGED <<pc, graphVars, callVars, files, sessionVars, response, tested>>

\* one turn of the loop of applyFixesToContainer, up to its await: the
\* instruction of the next fix is parsed and its command handed to
\* execPromise; an instruction that cannot be parsed fails at once
ApplyFix ==
  /\ pc = "apply"
  /\ running = <<>>
  /\ Len(applied) < Len(FixesToApply)
  /\ LET k == Len(applied) + 1
         fix == FixesToApply[k]
         cmd == PatchCommand(options.containerName, Get(fix, "file"),
                             Get(fix, "patch_instructions"))
     IN IF cmd.throws
          THEN /\ applied' = Append(applied, ApplyOutcome(fix, "FAILED"))
               /\ UNCHANGED <<shellLog, running>>
          ELSE /\ shellLog' = Append(shellLog, Merge(cmd.val, [fix |-> fix]))
               /\ running' = <<k>>
               /\ UNCHANGED applied
  /\ UNCHANGED <<pc, graphVars, callVars, files, sessionVars, response, tested>>

\* the command of the fix settles: results.push of the try or of the catch
ApplySettle ==
  /\ pc = "apply"
  /\ running # <<>>
  /\ LET fix == FixesToApply[Head(running)]
         cmd == shellLog[Len(shellLog) - Len(running) + 1]
     IN \E run \in Answers.patchRuns :
          /\ applied' = Append(applied,
               ApplyOutcome(fix, IF PatchRunSucceeds(cmd, run)
                                   THEN "APPLIED" ELSE "FAILED"))
          /\ files' = IF cmd.op = "sed" /\ ~run.throws
                        THEN SedInPlace(files, cmd.file, cmd.script)
                        ELSE files
  /\ running' = Tail(running)
  /\ UNCHANGED <<pc, graphVars, callVars, sessionVars, response, shellLog,
               tested>>

\* variant: every result counts, whatever its status
AttemptedCount == Len(applied)
AppliedCount == Len(SelectSeq(applied, LAMBDA r : r.status = "APPLIED"))
ApplyResult ==
  Obj([success |-> Bool(AppliedCount > 0), appliedCount |-> Num(AppliedCount),
       totalCount |-> Num(Len(FixesToApply)), results |-> applied])

\* variant: the tests are run again whatever was applied
ApplyDoneAlwaysRetesting ==
  /\ pc = "apply"
  /\ running = <<>>
  /\ Len(applied) = Len(FixesToApply)
  /\ pc' = "retest"
  /\ UNCHANGED <<graphVars, callVars, files, sessionVars, response, shellLog,
                 running, applied, tested>>

\* applyFixesToContainer returns; applyFixesAndVerify stops when nothing
\* was applied, and healTestErrors then returns
ApplyDone ==
  /\ pc = "apply"
  /\ running = <<>>
  /\ Len(applied) = Len(FixesToApply)
  /\ IF AppliedCount > 0
       THEN /\ pc' = "retest"
            /\ UNCHANGED response
       ELSE /\ pc' = "returned"
            /\ response' =
                 Obj(Merge(response.o,
                   [autoApplyResult |->
                      Obj([success |-> Bool(FALSE), applied |-> ApplyResult,
                           tested |-> Null, comparison |-> Null]),
                    fixesApplied |-> Bool(FALSE)]))
  /\ UNCHANGED <<graphVars, callVars, files, sessionVars, shellLog, running,
               applied, tested>>

\* detectTestCommand: packageJson.scripts?.test || "npm test"
DetectTestCommand(run) ==
  IF run.throws THEN NpmTest
  ELSE LET parsed == JSONparse(run.val.stdout) IN
    IF parsed.throws \/ ~CanGet(parsed.val) THEN NpmTest
    ELSE LET scripts == Get(parsed.val, "scripts")
             test == IF CanGet(scripts) THEN Get(scripts, "test") ELSE Undefined
         IN IF Truthy(test) THEN ToStr(test) ELSE NpmTest

\* variant: when the test command fails, the changes are rolled back
ReRunTestsRollingBack ==
  /\ pc = "retest"
  /\ \E cat \in Answers.packageJsonRuns, run \in Answers.testRuns :
       /\ shellLog' = shellLog \o
            <<[op |-> "cat", container |-> options.containerName,
               path |-> options.workDir],
              [op |-> "test", container |-> options.containerName,
               workDir |-> options.workDir,
               testCommand |-> DetectTestCommand(cat)]>> \o
            (IF run.throws
               THEN <<[op |-> "rollback", container |-> options.containerName,
                       workDir |-> options.workDir]>>
               ELSE <<>>)
       /\ files' = IF run.throws
                     THEN [name \in DOMAIN files |->
                             [head |-> files[name].head,
                              tree |-> files[name].head]]
                     ELSE files
       /\ tested' =
            IF run.throws
              THEN Obj([success |-> Bool(FALSE),
                        error |-> Str(<<"e","r","r">>)])
              ELSE Obj([success |->
                          Bool(/\ ~Includes(run.val.stderr.v, FAILED_WORD)
                               /\ ~Includes(run.val.stdout.v, FAILED_WORD)),
                        stdout |-> run.val.stdout,
                        stderr |-> run.val.stderr])
  /\ pc' = "compare"
  /\ UNCHANGED <<graphVars, callVars, sessionVars, response, running,
                 applied>>

\* reRunTests
ReRunTests ==
  /\ pc = "retest"
  /\ \E cat \in Answers.packageJsonRuns, run \in Answers.testRuns :
       /\ shellLog' = shellLog \o
            <<[op |-> "cat", container |-> options.containerName,
               path |-> options.workDir],
              [op |-> "test", container |-> options.containerName,
               workDir |-> options.workDir,
               testCommand |-> DetectTestCommand(cat)]>>
       /\ tested' =
            IF run.throws
              THEN Obj([success |-> Bool(FALSE),
                        error |-> Str(<<"e","r","r">>)])
              ELSE Obj([success |->
                          Bool(/\ ~Includes(run.val.stderr.v, FAILED_WORD)
                               /\ ~Includes(run.val.stdout.v, FAILED_WORD)),
                        stdout |-> run.val.stdout,
                        stderr |-> run.val.stderr])
  /\ pc' = "compare"
  /\ UNCHANGED <<graphVars, callVars, files, sessionVars, response, running,
               applied>>

\* compareTestResults
StdoutOrEmpty(results) ==
  IF Truthy(Get(results, "stdout")) THEN Get(results, "stdout").v ELSE <<>>
\* variant: a run that is not worse counts as improved
CompareTestResultsNotWorse(beforeResults, afterResults) ==
  LET beforeFailed == CountFailureWords(StdoutOrEmpty(beforeResults))
      afterFailed == CountFailureWords(StdoutOrEmpty(afterResults))
  IN [before |-> beforeFailed, after |-> afterFailed,
      improved |-> beforeFailed - afterFailed >= 0,
      improvement |-> beforeFailed - afterFailed]
CompareTestResults(beforeResults, afterResults) ==
  LET beforeFailed == CountFailureWords(StdoutOrEmpty(beforeResults))
      afterFailed == CountFailureWords(StdoutOrEmpty(afterResults))
  IN [before |-> beforeFailed, after |-> afterFailed,
      improved |-> beforeFailed - afterFailed > 0,
      improvement |-> beforeFailed - afterFailed]

\* variant: the changes are committed whether or not the tests improved
CompareAndDecideAlwaysCommitting ==
  /\ pc = "compare"
  /\ LET comparison == CompareTestResults(Obj([stdout |-> testLogs]), tested)
     IN /\ response' =
             Obj(Merge(response.o,
               [autoApplyResult |->
                  Obj([success |-> Bool(comparison.improved),
                       applied |-> ApplyResult, tested |-> tested,
                       comparison |-> comparison]),
                fixesApplied |-> Bool(comparison.improved)]))
        /\ pc' = IF Truthy(options.commitMessage)
                   THEN "commit" ELSE "returned"
  /\ UNCHANGED <<graphVars, callVars, files, sessionVars, shellLog, running,
               applied, tested>>

\* the rest of applyFixesAndVerify and the commit decision of healTestErrors
CompareAndDecide ==
  /\ pc = "compare"
  /\ LET comparison == CompareTestResults(Obj([stdout |-> testLogs]), tested)
     IN /\ response' =
             Obj(Merge(response.o,
               [autoApplyResult |->
                  Obj([success |-> Bool(comparison.improved),
                       applied |-> ApplyResult, tested |-> tested,
                       comparison |-> comparison]),
                fixesApplied |-> Bool(comparison.improved)]))
        /\ pc' = IF comparison.improved /\ Truthy(options.commitMessage)
                   THEN "commit" ELSE "returned"
  /\ UNCHANGED <<graphVars, callVars, files, sessionVars, shellLog, running,
               applied, tested>>

\* commitChanges
CommitChanges ==
  /\ pc = "commit"
  /\ \E run \in Answers.gitRuns :
       /\ shellLog' = Append(shellLog,
            [op |-> "commit", container |-> options.containerName,
             workDir |-> options.workDir, message |-> options.commitMessage])
       /\ response' =
            Obj(Merge(response.o,
              [commitResult |-> Obj([success |-> Bool(~run.throws)])]))
       /\ files' = IF run.throws THEN files
                     ELSE [name \in DOMAIN files |->
                             [head |-> files[name].tree,
                              tree |-> files[name].tree]]
  /\ pc' = "returned"
  /\ UNCHANGED <<graphVars, callVars, sessionVars, running, applied, tested>>

\* rollbackChanges, called by the user of the module once healTestErrors
\* has returned
RollbackChanges ==
  /\ pc = "returned"
  /\ Truthy(options.containerName) /\ Truthy(options.workDir)
  /\ \E run \in Answers.gitRuns :
       /\ shellLog' = Append(shellLog,
            [op |-> "rollback", container |-> options.containerName,
             workDir |-> options.workDir])
       /\ files' = IF run.throws THEN files
                     ELSE [name \in DOMAIN files |->
                             [head |-> files[name].head,
                              tree |-> files[name].head]]
  /\ pc' = "rolledBack"
  /\ UNCHANGED <<graphVars, callVars, sessionVars, response, running,
                 applied, tested>>

Next ==
  \/ ExtractNode
  \/ ClassifyNode
  \/ \E i \in DOMAIN tasks : ClassifySettle(i)
  \/ ClassifyJoin
  \/ PatchNode
  \/ \E i \in DOMAIN tasks : PatchSettle(i)
  \/ PatchJoin
  \/ VerifyNode
  \/ \E i \in DOMAIN tasks : VerifySettle(i)
  \/ VerifyJoin

Spec == Init /\ [][Next]_vars
SpecLoose == InitLoose /\ [][Next]_vars

\* healTestErrors(testLogs, options)
InitHeal ==
  /\ pc = "heal"
  /\ InitialState
  /\ env \in {"service", "down"}
  /\ testLogs \in BlankLogs \cup {Str(l) : l \in LogTexts}
  /\ options \in OptionSets
  /\ NotCalled
  /\ files = Checkout
  /\ NoSession

NextHeal ==
  \/ Next
  \/ HealTestErrors
  \/ HealRespond
  \/ HealCatch
  \/ ApplyFix
  \/ ApplySettle
  \/ ApplyDone
  \/ ReRunTests
  \/ CompareAndDecide
  \/ CommitChanges

SpecHeal == InitHeal /\ [][NextHeal]_vars

(***************************************************************************)
(* healTestErrors from the return of runAgentGraph on.  What the graph has *)
(* returned is computed with the callbacks of the three fan-out nodes from *)
(* the answers the models gave for each item.                              *)
(***************************************************************************)
ItemAnswers ==
  {[classifier |-> Response(Str(LOGIC)),
    patch |-> Response(JsonText(FALSE, SubstitutionPatch)),
    verifier |-> Response(APPROVED)],
   [classifier |-> Response(Str(LOGIC)),
    patch |-> Response(JsonText(FALSE, CommandPatch)),
    verifier |-> Response(APPROVED)],
   [classifier |-> Response(Str(LOGIC)),
    patch |-> Response(JsonText(FALSE, ReplaceCommandPatch)),
    verifier |-> Response(APPROVED)],
   [classifier |-> Response(Str(LOGIC)),
    patch |-> Response(JsonText(FALSE, SubstitutionPatch)),
    verifier |-> Response(REJECTED)],
   [classifier |-> Throw, patch |-> Throw, verifier |-> Throw]}

\* the calls that ask for a commit whenever they ask for the fixes to be
\* applied
RespondOptions ==
  {o \in OptionSets : Truthy(o.commitMessage) \/ ~Truthy(o.autoApply)}

ClassifiedBy(list, answers) ==
  [i \in DOMAIN list |-> ClassifyOne(list[i], answers[i].classifier).value]
PatchedBy(list, answers) ==
  [i \in DOMAIN list |->
     PatchOne(ClassifiedBy(list, answers)[i], answers[i].patch).value]
VerifiedBy(list, answers) ==
  [i \in DOMAIN list |->
     VerifyOne(PatchedBy(list, answers)[i], answers[i].verifier).value]

InitRespond ==
  /\ pc = "END"
  /\ stageLog = <<"extract", "classify", "patch", "verify">>
  /\ \E n \in 0..MaxPatches :
       \E list \in {Mixed(n)} :
         \E answers \in [1..n -> ItemAnswers] :
           /\ failures = Arr(list)
           /\ classifiedFailures = ClassifiedBy(list, answers)
           /\ generatedPatches = PatchedBy(list, answers)
           /\ verifiedPatches = VerifiedBy(list, answers)
           /\ finalFixes = SelectSeq(VerifiedBy(list, answers), IsApprovedPatch)
           /\ processedCount = n
           /\ lastCall =
                IF n > 0 THEN NoCall
                ELSE [node |-> "extract", index |-> 0,
                      outcome |-> Response(JsonText(FALSE, Arr(list)))]
  /\ fanout = "none"
  /\ tasks = <<>>
  /\ env = "service"
  /\ testLogs \in {Str(l) : l \in LogTexts}
  /\ options \in RespondOptions
  /\ NotCalled
  /\ files = Checkout
  /\ NoSession

NextRespond ==
  \/ HealRespond
  \/ ApplyFix
  \/ ApplySettle
  \/ ApplyDone
  \/ ReRunTests
  \/ CompareAndDecide
  \/ CommitChanges

SpecRespond == InitRespond /\ [][NextRespond]_vars

(***************************************************************************)
(* healTestErrors on a container whose tests run on its files, and the     *)
(* user of the module who may roll the changes back afterwards.  Every     *)
(* item got an approved substitution.                                      *)
(***************************************************************************)
SandboxItemAnswers ==
  {[classifier |-> Response(Str(LOGIC)),
    patch |-> Response(JsonText(FALSE, p)),
    verifier |-> Response(APPROVED)] :
     p \in {SubstitutionPatch, NoOpPatch, NoOpPatternPatch}}
SandboxOptions == {o \in OptionSets : Truthy(o.autoApply)}

InitSandbox ==
  /\ pc = "END"
  /\ stageLog = <<"extract", "classify", "patch", "verify">>
  /\ \E n \in 0..MaxPatches :
       \E list \in {Mixed(n)} :
         \E answers \in [1..n -> SandboxItemAnswers] :
           /\ failures = Arr(list)
           /\ classifiedFailures = ClassifiedBy(list, answers)
           /\ generatedPatches = PatchedBy(list, answers)
           /\ verifiedPatches = VerifiedBy(list, answers)
           /\ finalFixes = SelectSeq(VerifiedBy(list, answers), IsApprovedPatch)
           /\ processedCount = n
           /\ lastCall =
                IF n > 0 THEN NoCall
                ELSE [node |-> "extract", index |-> 0,
                      outcome |-> Response(JsonText(FALSE, Arr(list)))]
  /\ fanout = "none"
  /\ tasks = <<>>
  /\ env = "sandbox"
  /\ testLogs = Str(OneFailed)
  /\ options \in SandboxOptions
  /\ NotCalled
  /\ files = Checkout
  /\ NoSession

NextSandbox ==
  \/ NextRespond
  \/ RollbackChanges

SpecSandbox == InitSandbox /\ [][NextSandbox]_vars

(***************************************************************************)
(* The client: startHealingLoop.  Each turn of the loop reads the log of   *)
(* the last test run, posts it to /api/healing/heal, which runs            *)
(* healTestErrors on the server, and, when fixes were applied, posts to    *)
(* the test runner.  A log file is written once, so the loop's logFile is  *)
(* kept with the text the file holds.                                      *)
(***************************************************************************)
maxIterations == 5
MaxLoopFailures == 1

HEALED == Str(<<"h","e","a","l","e","d">>)
FAILED == Str(<<"f","a","i","l","e","d">>)
ERROR == Str(<<"e","r","r","o","r">>)
PARTIAL == Str(<<"p","a","r","t","i","a","l">>)

LogFileOf(run, text) == Obj([name |-> Num(run), content |-> Str(text)])

\* the options of the request of line 92
AIFixIteration == <<"A","I"," ","F","i","x"," ">>
LoopOptions(k) ==
  [autoApply |-> Bool(TRUE), reportFormat |-> JSON,
   containerName |-> Container, workDir |-> WorkDir,
   commitMessage |-> Str(AIFixIteration \o NumberToString(k))]

\* what the pipeline may find in a log: some failures of the two files, and
\* for each an approved substitution or no answer of the models at all
RECURSIVE LoopLists(_)
LoopLists(n) ==
  IF n = 0 THEN {<<>>}
  ELSE LoopLists(n - 1) \cup
         {Append(l, f) : l \in {k \in LoopLists(n - 1) : Len(k) = n - 1},
                         f \in {FailureA, FailureB}}
LoopItemAnswers ==
  SandboxItemAnswers \cup
    {[classifier |-> Throw, patch |-> Throw, verifier |-> Throw]}

\* what /api/test-runner/:containerName/run-tests answers: the fetch fails,
\* the run fails before the tests (no output in the body), or the tests ran
RunTestsAnswers(fs, run) ==
  {Throw, Ret(Obj([logFile |-> LogFileOf(run, <<>>)]))}
    \cup {Ret(Obj([logFile |->
                     LogFileOf(run, IF t.throws THEN OneFailed
                                    ELSE t.val.stdout.v),
                   output |-> Obj([exitCode |->
                                     Num(IF t.throws THEN 1 ELSE 0)])])) :
            t \in TestRunsOn(fs)}

\* the body healTestErrors_Controller sends for the response of the service
HealData ==
  Obj([success |-> Get(response, "success"),
       statistics |-> Get(response, "statistics"),
       fixesApplied |-> IF Truthy(Get(response, "fixesApplied"))
                          THEN Get(response, "fixesApplied")
                          ELSE Bool(FALSE)])

\* the catch block of the loop: setFinalStatus('error'), break
LoopCatch ==
  /\ finalStatus' = ERROR
  /\ loopPc' = "after"

\* variant: the budget is checked with one turn to spare
LoopTestOneMore ==
  /\ loopPc = "while"
  /\ loopPc' = IF ~testsPassed /\ iteration <= maxIterations + 1
                 THEN "readLog" ELSE "after"
  /\ UNCHANGED <<pc, graphVars, callVars, healVars, files, iteration,
                 testsPassed, finalStatus, logFile, cycles>>

\* the condition of the while
LoopTest ==
  /\ loopPc = "while"
  /\ loopPc' = IF ~testsPassed /\ iteration <= maxIterations
                 THEN "readLog" ELSE "after"
  /\ UNCHANGED <<pc, graphVars, callVars, healVars, files, iteration,
                 testsPassed, finalStatus, logFile, cycles>>

\* fetch of /api/test-runner/logs/${logFile}
LoopReadLog ==
  /\ loopPc = "readLog"
  /\ \/ /\ LoopCatch
        /\ UNCHANGED testLogs
     \/ /\ testLogs' = Get(logFile, "content")
        /\ loopPc' = "post"
        /\ UNCHANGED finalStatus
  /\ UNCHANGED <<pc, graphVars, env, options, healVars, files, iteration,
                 testsPassed, logFile, cycles>>

\* fetch of /api/healing/heal: the controller refuses a request without
\* logs; otherwise healTestErrors runs the graph, which throws or returns
LoopHeal ==
  /\ loopPc = "post"
  /\ options' = LoopOptions(iteration)
  /\ shellLog' = <<>>
  /\ running' = <<>>
  /\ applied' = <<>>
  /\ tested' = Undefined
  /\ stageLog' = <<"extract", "classify", "patch", "verify">>
  /\ fanout' = "none"
  /\ tasks' = <<>>
  /\ lastCall' = NoCall
  /\ loopPc' = "heal"
  /\ \/ /\ pc' = "returned"
        /\ response' = IF Truthy(testLogs) THEN CaughtResponse
                       ELSE Obj([success |-> Bool(FALSE)])
        /\ failures' = Arr(<<>>)
        /\ classifiedFailures' = <<>>
        /\ generatedPatches' = <<>>
        /\ verifiedPatches' = <<>>
        /\ finalFixes' = <<>>
        /\ processedCount' = 0
     \/ /\ Truthy(testLogs)
        /\ pc' = "END"
        /\ response' = Undefined
        /\ \E list \in LoopLists(MaxLoopFailures) :
             \E answers \in [DOMAIN list -> LoopItemAnswers] :
               /\ failures' = Arr(list)
               /\ classifiedFailures' = ClassifiedBy(list, answers)
               /\ generatedPatches' = PatchedBy(list, answers)
               /\ verifiedPatches' = VerifiedBy(list, answers)
               /\ finalFixes' =
                    SelectSeq(VerifiedBy(list, answers), IsApprovedPatch)
               /\ processedCount' = Len(list)
  /\ UNCHANGED <<env, testLogs, files, iteration, testsPassed, finalStatus,
                 logFile, cycles>>

\* the body of the heal response has arrived: lines 107 to 150 up to the
\* next fetch
LoopReceive ==
  /\ loopPc = "heal"
  /\ pc = "returned"
  /\ IF ~CanGet(Get(HealData, "statistics"))
       THEN LoopCatch
       ELSE IF Truthy(Get(HealData, "fixesApplied"))
         THEN /\ loopPc' = "retest"
              /\ UNCHANGED finalStatus
         ELSE /\ finalStatus' = FAILED
              /\ loopPc' = "after"
  /\ UNCHANGED <<pc, graphVars, callVars, healVars, files, iteration,
                 testsPassed, logFile, cycles>>

\* fetch of /api/test-runner/${containerName}/run-tests and lines 132 to 145
LoopRetest ==
  /\ loopPc = "retest"
  /\ \E answer \in RunTestsAnswers(files, iteration) :
       IF answer.throws
         THEN /\ LoopCatch
              /\ UNCHANGED <<logFile, testsPassed, iteration>>
       ELSE
         /\ logFile' = Get(answer.val, "logFile")
         /\ IF ~CanGet(Get(answer.val, "output"))
              THEN /\ LoopCatch
                   /\ UNCHANGED <<testsPassed, iteration>>
            ELSE IF Get(Get(answer.val, "output"), "exitCode") = Num(0)
              THEN /\ testsPassed' = TRUE
                   /\ finalStatus' = HEALED
                   /\ loopPc' = "while"
                   /\ UNCHANGED iteration
            ELSE /\ iteration' = iteration + 1
                 /\ loopPc' = "while"
                 /\ UNCHANGED <<testsPassed, finalStatus>>
  /\ UNCHANGED <<pc, graphVars, callVars, healVars, files, cycles>>

\* after the loop: lines 158 to 164
LoopAfter ==
  /\ loopPc = "after"
  /\ finalStatus' = IF ~testsPassed THEN PARTIAL ELSE finalStatus
  /\ loopPc' = "done"
  /\ UNCHANGED <<pc, graphVars, callVars, healVars, files, iteration,
                 testsPassed, logFile, cycles>>

\* startHealingLoop has been called for a container whose tests have failed
InitLoop ==
  /\ pc = "idle"
  /\ InitialState
  /\ env = "sandbox"
  /\ testLogs = Undefined
  /\ options = DefaultOptions
  /\ NotCalled
  /\ files = Checkout
  /\ iteration = 1
  /\ testsPassed = FALSE
  /\ finalStatus = Null
  /\ logFile \in {LogFileOf(0, OneFailed), Undefined}
  /\ loopPc = "while"
  /\ cycles = << >>

NextLoop ==
  \/ LoopTest
  \/ LoopReadLog
  \/ LoopHeal
  \/ LoopReceive
  \/ LoopRetest
  \/ LoopAfter
  \/ NextRespond

SpecLoop == InitLoop /\ [][NextLoop]_vars

(***************************************************************************)
(* Properties.                                                             *)
(***************************************************************************)
StatusOf(v) == Get(v, "verification_status")
Returned == pc = "END"

\* C1: when runAgentGraph returns, whatever calls failed or answered badly,
\* classifiedFailures is as long as failures, generatedPatches as long as
\* classifiedFailures and verifiedPatches as long as generatedPatches.
C1_StagesKeepEveryItem ==
  Returned =>
    /\ Get(failures, "length") = Num(Len(classifiedFailures))
    /\ Len(generatedPatches) = Len(classifiedFailures)
    /\ Len(verifiedPatches) = Len(generatedPatches)

\* a returned run of two items, one degraded in Classify, one in Verify
C1_Witness ==
  /\ Returned
  /\ Len(verifiedPatches) = 2
  /\ \E i \in 1..2 : Get(verifiedPatches[i], "bug_type") = UNKNOWN
  /\ \E i \in 1..2 : StatusOf(verifiedPatches[i]) = PENDING_REVIEW

\* C2: finalFixes holds exactly the APPROVED elements of verifiedPatches:
\* each of its elements is an APPROVED element of verifiedPatches, each
\* APPROVED element of verifiedPatches is in it, as many times.
C2_FinalFixesAreTheApproved ==
  LET approvedAt == {i \in 1..Len(verifiedPatches) :
                       StatusOf(verifiedPatches[i]) = APPROVED}
  IN /\ \A k \in 1..Len(finalFixes) :
          /\ StatusOf(finalFixes[k]) = APPROVED
          /\ \E i \in approvedAt : verifiedPatches[i] = finalFixes[k]
     /\ \A i \in approvedAt :
          \E k \in 1..Len(finalFixes) : finalFixes[k] = verifiedPatches[i]
     /\ Len(finalFixes) = Cardinality(approvedAt)
     /\ Len(verifiedPatches) = 0 => Len(finalFixes) = 0

\* a returned run with an approved, and a pending patch
C2_Witness ==
  /\ Returned
  /\ Len(finalFixes) = 1
  /\ \E i \in 1..Len(verifiedPatches) :
       StatusOf(verifiedPatches[i]) = PENDING_REVIEW

\* the verifier call that settled last, and the slot it filled
VerifierAnswered == lastCall.node = "verify"
AnswerText(outcome) == outcome.val.content.v
IsText(outcome) == ~outcome.throws /\ outcome.val.content.t = "string"
SlotOfLastCall == tasks[lastCall.index].value

\* C3: fail-closed verification: an answer of the verifier without the
\* approval token, in whatever letter case (empty, other text, REJECTED), or
\* a failed call, never gives the patch the status APPROVED.
LacksApprovalToken(outcome) ==
  IsText(outcome) => ~Includes(ToUpperCase(AnswerText(outcome)), APPROVED.v)
C3_FailClosed ==
  (VerifierAnswered /\ LacksApprovalToken(lastCall.outcome))
    => StatusOf(SlotOfLastCall) # APPROVED

\* the verifier answered with text that holds no token, and another patch
\* of the same run was approved
C3_Witness ==
  /\ VerifierAnswered
  /\ IsText(lastCall.outcome)
  /\ AnswerText(lastCall.outcome) = <<"L","G","T","M">>
  /\ StatusOf(SlotOfLastCall) = REJECTED
  /\ \E i \in DOMAIN tasks :
       tasks[i].status = "fulfilled" /\ StatusOf(tasks[i].value) = APPROVED

\* C4: an explicitly negative answer of the verifier (it says NOT approved,
\* or names rejection next to approval) never gives the status APPROVED.
NOT_WORD == <<"N","O","T"," ">>
ExplicitlyNegative(outcome) ==
  /\ IsText(outcome)
  /\ \/ Includes(ToUpperCase(AnswerText(outcome)), NOT_WORD)
     \/ Includes(ToUpperCase(AnswerText(outcome)), REJECTED.v)
C4_NegativeAnswerNeverApproved ==
  (VerifierAnswered /\ ExplicitlyNegative(lastCall.outcome))
    => StatusOf(SlotOfLastCall) \in {REJECTED, PENDING_REVIEW}

\* C5: approval gating in healTestErrors: each command the apply engine
\* runs for a patch belongs to an APPROVED element of verifiedPatches, and no
\* command is run in the container before the Verify stage has finished.
IsPatchCommand(c) == c.op \in {"sed", "exec"}
C5_ApprovalGating ==
  /\ \A k \in 1..Len(shellLog) :
       IsPatchCommand(shellLog[k]) =>
         /\ StatusOf(shellLog[k].fix) = APPROVED
         /\ \E i \in 1..Len(verifiedPatches) :
              verifiedPatches[i] = shellLog[k].fix
  /\ (shellLog # <<>> \/ pc \in {"apply", "retest", "compare", "commit"}) =>
       /\ stageLog = <<"extract", "classify", "patch", "verify">>
       /\ fanout = "none"
  /\ pc = "apply" =>
       \A k \in 1..Len(FixesToApply) : StatusOf(FixesToApply[k]) = APPROVED

\* a patch command has run while another patch of the run was not approved
C5_Witness ==
  /\ \E k \in 1..Len(shellLog) : IsPatchCommand(shellLog[k])
  /\ \E i \in 1..Len(verifiedPatches) :
       StatusOf(verifiedPatches[i]) \in {REJECTED, PENDING_REVIEW}

\* C6: in each fan-out stage output i is derived from input i, whatever the
\* order in which the calls settle: it carries the file, line and
\* error_message of input i, also among identical duplicates.
SameOrigin(out, in) ==
  \A k \in {"file", "line", "error_message"} : Get(out, k) = Get(in, k)
Aligned(outputs, inputs) ==
  /\ Len(outputs) <= Len(inputs)
  /\ \A i \in 1..Len(outputs) : SameOrigin(outputs[i], inputs[i])
InputsOf(node) ==
  CASE node = "classify" -> failures.v
    [] node = "patch" -> classifiedFailures
    [] node = "verify" -> generatedPatches
C6_IndexAligned ==
  /\ classifiedFailures # <<>> => Aligned(classifiedFailures, failures.v)
  /\ Aligned(generatedPatches, classifiedFailures)
  /\ Aligned(verifiedPatches, generatedPatches)
  /\ fanout # "none" =>
       \A i \in DOMAIN tasks :
         tasks[i].status = "fulfilled" =>
           SameOrigin(tasks[i].value, InputsOf(fanout)[i])

\* the call of the second item settled before the call of the first, the
\* two items differ
C6_Witness ==
  /\ fanout = "patch"
  /\ Len(tasks) = 2
  /\ tasks[1] = Pending
  /\ tasks[2].status = "fulfilled"
  /\ ~SameOrigin(classifiedFailures[1], classifiedFailures[2])

\* C7: a fan-out stage returns only once all its calls have settled and
\* its result holds, slot by slot, what each call produced; a settling call
\* leaves the other promises alone and every pending call can still settle;
\* failed calls never make the stage throw: it throws only on a failures
\* value that is not a list of records.
StageReturns == fanout # "none" /\ fanout' = "none"
ReturnedOutputs ==
  CASE fanout = "classify" -> classifiedFailures'
    [] fanout = "patch" -> generatedPatches'
    [] fanout = "verify" -> verifiedPatches'
ListOfRecords ==
  /\ failures.t = "array"
  /\ \A i \in 1..Len(failures.v) : failures.v[i].t = "object"
C7_BarrierAndIsolation ==
  /\ [][StageReturns =>
          /\ \A i \in DOMAIN tasks : tasks[i].status = "fulfilled"
          /\ ReturnedOutputs = [i \in DOMAIN tasks |-> tasks[i].value]]_vars
  /\ [][(fanout # "none" /\ fanout' = fanout) =>
          \A i \in DOMAIN tasks :
            tasks[i] # Pending => tasks'[i] = tasks[i]]_vars
  /\ [](\A i \in DOMAIN tasks :
          tasks[i] = Pending =>
            ENABLED (ClassifySettle(i) \/ PatchSettle(i) \/ VerifySettle(i)))
  /\ [](pc = "THROWN" => ~ListOfRecords)

\* a stage has returned with the fallback of a failed call in one slot and
\* the answer of a later call in another
C7_Witness ==
  /\ pc = "patch"
  /\ Len(classifiedFailures) = 2
  /\ Get(classifiedFailures[1], "bug_type") = UNKNOWN
  /\ Get(classifiedFailures[2], "bug_type") = Str(LOGIC)

\* C8 as stated: on a failed call the Classifier emits the category
\* UNKNOWN, the Patch Generator the instruction "manual review needed", the
\* Verifier the status PENDING_REVIEW.
CallFailed(outcome) == outcome.throws \/ outcome.val.content.t # "string"
LastCallFailedIn(node) == lastCall.node = node /\ CallFailed(lastCall.outcome)
C8_SentinelsAsStated ==
  /\ LastCallFailedIn("classify") =>
       Get(SlotOfLastCall, "bug_type") = UNKNOWN
  /\ LastCallFailedIn("patch") =>
       /\ Get(SlotOfLastCall, "patch_instructions").t = "string"
       /\ ToLowerCase(Get(SlotOfLastCall, "patch_instructions").v)
            = LowerManualReviewNeeded.v
  /\ LastCallFailedIn("verify") =>
       StatusOf(SlotOfLastCall) = PENDING_REVIEW

\* C8 amended: on a failed call the Classifier emits the category UNKNOWN,
\* the Patch Generator the instruction "Review <file>:<line>" with the
\* expected output "Manual review needed", the Verifier PENDING_REVIEW.
ReviewOf(item) ==
  Str(<<"R","e","v","i","e","w"," ">> \o ToStr(Get(item, "file")) \o <<":">>
        \o ToStr(Get(item, "line")))
C8_Sentinels ==
  /\ LastCallFailedIn("classify") =>
       Get(SlotOfLastCall, "bug_type") = UNKNOWN
  /\ LastCallFailedIn("patch") =>
       /\ Get(SlotOfLastCall, "patch_instructions")
            = ReviewOf(classifiedFailures[lastCall.index])
       /\ Get(SlotOfLastCall, "required_dashboard_output")
            = Str(<<"M","a","n","u","a","l"," ","r","e","v","i","e","w"," ",
                    "n","e","e","d","e","d">>)
  /\ LastCallFailedIn("verify") =>
       StatusOf(SlotOfLastCall) = PENDING_REVIEW

\* the patch call of the failure at a.js line 10 has failed
C8_Witness ==
  /\ LastCallFailedIn("patch")
  /\ Get(SlotOfLastCall, "patch_instructions")
       = Str(<<"R","e","v","i","e","w"," ","a",".","j","s",":","1","0">>)

\* C9: the graph invokes Extract, Classify, Patch, Verify once each in this
\* order, a stage starting only when the one before has returned; a run
\* that returns has gone through all four, and every extracted failure has
\* its classified, patched and verified record.
StageOrder == <<"extract", "classify", "patch", "verify">>
IsPrefix(a, b) == Len(a) <= Len(b) /\ SubSeq(b, 1, Len(a)) = a
C9_FixedLinearOrder ==
  /\ IsPrefix(stageLog, StageOrder)
  /\ fanout # "none" => stageLog[Len(stageLog)] = fanout
  /\ Returned => stageLog = StageOrder
  /\ Returned =>
       \A i \in 1..Get(failures, "length").v :
         /\ i <= Len(verifiedPatches)
         /\ SameOrigin(verifiedPatches[i], failures.v[i])
         /\ {"bug_type", "patch_instructions", "verification_status"}
              \subseteq DOMAIN verifiedPatches[i].o

\* a run over two failures has returned
C9_Witness ==
  /\ Returned
  /\ Len(verifiedPatches) = 2
  /\ stageLog = StageOrder

\* C10: for every answer of the extractor that is not a list of records
\* with file, line and error_message (or no answer at all) the failure list
\* is empty and the graph does not throw.
IsFailureRecord(x) ==
  /\ x.t = "object"
  /\ Get(x, "file").t = "string"
  /\ Get(x, "line").t = "number"
  /\ Get(x, "error_message").t = "string"
AnswersListOfRecords(outcome) ==
  /\ IsText(outcome)
  /\ ~JSONparse(StripFences(outcome.val.content)).throws
  /\ LET doc == JSONparse(StripFences(outcome.val.content)).val
     IN /\ doc.t = "array"
        /\ \A i \in 1..Len(doc.v) : IsFailureRecord(doc.v[i])
C10_ExtractorNeverCrashes ==
  (lastCall.node = "extract" /\ ~AnswersListOfRecords(lastCall.outcome))
    => (failures = Arr(<<>>) /\ pc # "THROWN")

HealReturned == pc = "returned"
NonBlankLogs == Truthy(testLogs) /\ Trim(testLogs.v) # <<>>
ReportLists ==
  {"failures", "classifiedFailures", "generatedPatches", "verifiedPatches",
   "finalFixes"}

\* C11: whenever healTestErrors is called with logs that are not blank, the
\* result it returns has success = true, the statistics and a report, and its
\* results hold the five lists failures, classifiedFailures, generatedPatches,
\* verifiedPatches and finalFixes, whatever the items of the fan-out stages
\* ran into.
C11_AlwaysACompleteReport ==
  (HealReturned /\ NonBlankLogs) =>
    /\ Get(response, "success") = Bool(TRUE)
    /\ Get(response, "statistics").t = "object"
    /\ Get(response, "report") # Undefined
    /\ \A k \in ReportLists : IsArray(Get(Get(response, "results"), k))

\* C12: a call of the extractor model that fails makes the pipeline throw, so
\* that healTestErrors answers with a failure, while a call that fails in
\* Classify, Patch or Verify only fills the slot of its item (with the
\* sentinel) and the stage goes on.
ExtractorUnavailable ==
  pc = "extract" /\ lastCall'.node = "extract" /\ lastCall'.outcome.throws
FanoutCallUnavailable ==
  /\ lastCall' # lastCall
  /\ lastCall'.node \in {"classify", "patch", "verify"}
  /\ lastCall'.outcome.throws
C12_OnlyExtractAborts ==
  /\ [][ExtractorUnavailable => pc' = "THROWN"]_vars
  /\ [][FanoutCallUnavailable =>
          /\ pc' # "THROWN"
          /\ tasks'[lastCall'.index].status = "fulfilled"]_vars

\* C13: healTestErrors called with logs that are missing, empty or only
\* white space returns success = false and results = null at once: no node of
\* the graph runs, no inference call is made and no command is handed to the
\* container.
BlankLogsGiven == testLogs \in BlankLogs
C13_BlankLogsRejectedAtOnce ==
  BlankLogsGiven =>
    /\ pc \in {"heal", "returned"}
    /\ stageLog = <<>> /\ lastCall = NoCall /\ tasks = <<>>
    /\ shellLog = <<>> /\ applied = <<>>
    /\ HealReturned =>
         /\ Get(response, "success") = Bool(FALSE)
         /\ Get(response, "results") = Null
C13_Witness ==
  /\ HealReturned
  /\ testLogs = Str(<<" ","\n">>)
  /\ Truthy(options.autoApply)
  /\ Get(response, "results") = Null

\* C14 as stated: with every inference call failing (the call of the
\* extractor included) the report has the one failure of a.js line 10, its
\* category UNKNOWN, the instruction "manual review needed", the status
\* PENDING_REVIEW, no approved fix and the approval rate "0.00%".
ZeroPercent == Str(<<"0",".","0","0","%">>)
One == Num(1)
EveryCallFailed == lastCall.node = "extract" /\ lastCall.outcome.throws
ResultList(k) == Get(Get(response, "results"), k)
StatisticsAre(n, approved, rate) ==
  /\ \A k \in {"totalFailures", "classified", "patched", "verified"} :
       Get(Get(response, "statistics"), k) = n
  /\ Get(Get(response, "statistics"), "approved") = approved
  /\ Get(Get(response, "statistics"), "approvalRate") = rate
OfflineReport(instruction) ==
  /\ StatisticsAre(One, Num(0), ZeroPercent)
  /\ ResultList("failures") = Arr(<<FailureA>>)
  /\ Get(ResultList("classifiedFailures"), "length") = One
  /\ Get(ResultList("classifiedFailures").v[1], "bug_type") = UNKNOWN
  /\ Get(ResultList("generatedPatches"), "length") = One
  /\ Get(ResultList("generatedPatches").v[1], "patch_instructions")
       = instruction
  /\ Get(ResultList("verifiedPatches"), "length") = One
  /\ StatusOf(ResultList("verifiedPatches").v[1]) = PENDING_REVIEW
  /\ ResultList("finalFixes") = Arr(<<>>)
ReviewA ==
  Str(<<"R","e","v","i","e","w"," ","a",".","j","s",":","1","0">>)
LaterCallsFailed == env = "down"
Responded == response # Undefined /\ Get(response, "success") = Bool(TRUE)
Approved == Len(finalFixes)
Patched == Len(generatedPatches)
RatesReturned ==
  {Get(Get(response, "statistics"), "approvalRate")}
    \cup (IF options.reportFormat = SUMMARY
            THEN {Get(Get(response, "report"), "approvalRate")} ELSE {})
RoundedPercent == (200 * Approved + Patched) \div (2 * Patched)
IsRateText(text, hundredths) ==
  text = NumberToString(hundredths \div 100)
           \o <<".", Digits[((hundredths % 100) \div 10) + 1],
                Digits[(hundredths % 10) + 1], "%">>
Distance(x, y) == IF x < y THEN y - x ELSE x - y
JsonReport == FormatReport(WorkflowResult, JSON).val
MarkdownReport == FormatReport(WorkflowResult, MARKDOWN).val
SummaryReport == FormatReport(WorkflowResult, SUMMARY).val
\* the n of the summary line of the narrative with this label
MarkdownCount(md, label) ==
  SelectSeq(md.markdown, LAMBDA l : l.part = "count" /\ l.label = label)[1].n
MarkdownParts(md, part) == SelectSeq(md.markdown, LAMBDA l : l.part = part)
StatisticsCount(k) == Get(Get(response, "statistics"), k)
CountsAgree(json, md, summary) ==
  \A c \in {[stat |-> "totalFailures", json |-> "extracted",
             md |-> "Total Failures", summary |-> "extracted"],
            [stat |-> "classified", json |-> "classified",
             md |-> "Classified", summary |-> "classified"],
            [stat |-> "patched", json |-> "patched",
             md |-> "Patches Generated", summary |-> "patched"],
            [stat |-> "verified", json |-> "verified",
             md |-> "Patches Verified", summary |-> "verified"],
            [stat |-> "approved", json |-> "approved",
             md |-> "Approved Fixes", summary |-> "approved"]} :
    /\ Get(Get(json, c.json), "length") = StatisticsCount(c.stat)
    /\ MarkdownCount(md, c.md) = ToStr(StatisticsCount(c.stat))
    /\ Get(Get(summary, "totals"), c.summary) = StatisticsCount(c.stat)
\* the report of the response is the one of the format asked for
ReportReturned(json, md, summary) ==
  Get(response, "report") =
    (CASE options.reportFormat = MARKDOWN -> md
       [] options.reportFormat = SUMMARY -> summary
       [] OTHER -> json)
\* the part of the narrative that shows this patch, under this number
ShowsApproved(part, fix, idx) ==
  /\ part.number = NumberToString(idx)
  /\ part.file = ToStr(Get(fix, "file")) /\ part.line = ToStr(Get(fix, "line"))
  /\ part.fix = ToStr(Get(fix, "patch_instructions"))
ShowsRejected(part, patch, idx) ==
  /\ part.number = NumberToString(idx)
  /\ part.file = ToStr(Get(patch, "file"))
  /\ part.line = ToStr(Get(patch, "line"))
  /\ part.error = ToStr(Get(patch, "error_message"))
ApprovedSectionLists(md, fixes) ==
  LET parts == MarkdownParts(md, "approved") IN
    /\ Len(parts) = Len(fixes)
    /\ \A i \in DOMAIN fixes : ShowsApproved(parts[i], fixes[i], i)
RejectedSectionLists(md, patches) ==
  LET parts == MarkdownParts(md, "rejected") IN
    /\ Len(parts) = Len(patches)
    /\ \A i \in DOMAIN patches : ShowsRejected(parts[i], patches[i], i)
ReportsAgree(json, md, summary, rejected) ==
  /\ CountsAgree(json, md, summary)
  /\ ReportReturned(json, md, summary)
  /\ ApprovedSectionLists(md, finalFixes)
  /\ RejectedSectionLists(md, rejected)
\* healTestErrors has just built the report and the statistics
ReportBuilt == Responded /\ shellLog = <<>> /\ applied = <<>>
ReportIsKept ==
  Responded =>
    /\ Get(response, "report")' = Get(response, "report")
    /\ Get(response, "statistics")' = Get(response, "statistics")

\* C16 as stated: the json, markdown and summary reports show the same five
\* counts as the statistics, the markdown report lists the approved fixes
\* and, as rejected, every verified patch that was not approved.
C16_ReportsAgreeAsStated ==
  ReportBuilt =>
    ReportsAgree(JsonReport, MarkdownReport, SummaryReport,
      SelectSeq(verifiedPatches, LAMBDA v : StatusOf(v) # APPROVED))

\* C16: the json, markdown and summary reports show the same five counts as
\* the statistics healTestErrors returns with them; the markdown report
\* lists, in order, the approved fixes and, as rejected, the verified patches
\* whose status is REJECTED (a patch left PENDING_REVIEW is in neither list).
C16_ReportsAgree ==
  /\ [](ReportBuilt =>
          ReportsAgree(JsonReport, MarkdownReport, SummaryReport,
            SelectSeq(verifiedPatches, LAMBDA v : StatusOf(v) = REJECTED)))
  /\ [][ReportIsKept]_vars
C16_Witness ==
  /\ ReportBuilt
  /\ options.reportFormat = SUMMARY
  /\ Len(verifiedPatches) = 3 /\ Len(finalFixes) = 1
  /\ Len(MarkdownParts(MarkdownReport, "rejected")) = 1
  /\ \E i \in DOMAIN verifiedPatches :
       StatusOf(verifiedPatches[i]) = PENDING_REVIEW

\* C17: applyFixesToContainer hands the command of a fix to the container
\* only when no command of an earlier fix is still running and every earlier
\* fix has its outcome, and it takes the fixes in the order of the list: the
\* patch commands are issued, and settle, in list order, one at a time.
PatchCommands == SelectSeq(shellLog, IsPatchCommand)
IssuesPatchCommand == pc = "apply" /\ shellLog' # shellLog
C17_AppliedOneAtATime ==
  /\ [](Len(running) <= 1)
  /\ [][IssuesPatchCommand =>
          /\ running = <<>>
          /\ shellLog' = Append(shellLog, shellLog'[Len(shellLog')])
          /\ shellLog'[Len(shellLog')].fix = FixesToApply[Len(applied) + 1]
          /\ running' = <<Len(applied) + 1>>]_vars
  /\ [][(pc = "apply" /\ applied' # applied) =>
          /\ Len(applied') = Len(applied) + 1
          /\ running # <<>> => running' = <<>> /\ Head(running) = Len(applied')
          /\ shellLog' = shellLog]_vars
\* two substitutions in the same file have run, the first listed first
C17_Witness ==
  /\ pc = "apply"
  /\ Len(PatchCommands) = 2 /\ running = <<>> /\ Len(applied) = 2
  /\ PatchCommands[1].op = "sed" /\ PatchCommands[2].op = "sed"
  /\ PatchCommands[1].file = PatchCommands[2].file
  /\ PatchCommands[1].script = PatchCommands[2].script
  /\ PatchCommands[1].fix = FixesToApply[1]
  /\ PatchCommands[2].fix = FixesToApply[2]
  /\ applied[1].status = "APPLIED" /\ applied[2].status = "APPLIED"

\* C18: applyFixesToContainer goes through the whole list whatever fails:
\* it returns only when every fix has its outcome and never throws, every
\* fix whose instruction can be read gets one command, every fix gets
\* exactly one outcome, APPLIED or FAILED, at its place in the list, and the
\* result it returns has totalCount = the number of fixes, appliedCount = the
\* number of outcomes APPLIED, success = (appliedCount > 0) and the outcomes.
ApplyReturned ==
  pc \in {"retest", "compare", "commit"}
    \/ (pc = "returned" /\ Get(response, "autoApplyResult") # Undefined
          /\ Get(Get(response, "autoApplyResult"), "applied") # Undefined)
CommandIssuedFor(fix) == ~PatchCommand(options.containerName, Get(fix, "file"),
                                       Get(fix, "patch_instructions")).throws
NumberApplied ==
  Cardinality({i \in DOMAIN applied : applied[i].status = "APPLIED"})
OutcomeOf(i) ==
  /\ applied[i].file = Get(FixesToApply[i], "file")
  /\ applied[i].line = Get(FixesToApply[i], "line")
  /\ applied[i].status \in {"APPLIED", "FAILED"}
  /\ applied[i].status = "APPLIED" => CommandIssuedFor(FixesToApply[i])
AppliedReported == Get(Get(response, "autoApplyResult"), "applied")
\* applyFixesToContainer has just returned
ApplyJustReturned == ApplyReturned /\ tested = Undefined
C18_EveryFixGetsItsOutcome ==
  /\ [][(pc = "apply" /\ pc' # "apply") =>
          /\ pc' \in {"retest", "returned"}
          /\ running = <<>> /\ Len(applied) = Len(FixesToApply)]_vars
  /\ [](Len(applied) + Len(running) <= Len(FixesToApply))
  /\ []((pc = "apply" \/ ApplyJustReturned) =>
          \A i \in DOMAIN applied : OutcomeOf(i))
  /\ [](ApplyJustReturned =>
          /\ Len(applied) = Len(FixesToApply)
          /\ [i \in DOMAIN PatchCommands |-> PatchCommands[i].fix]
               = SelectSeq(FixesToApply, CommandIssuedFor))
  /\ [][pc # "apply" =>
          (applied' = applied /\ PatchCommands' = PatchCommands)]_vars
  /\ []((pc = "returned" /\ ApplyReturned) =>
          /\ Get(AppliedReported, "results") = applied
          /\ Get(AppliedReported, "totalCount") = Num(Len(FixesToApply))
          /\ Get(AppliedReported, "appliedCount") = Num(NumberApplied)
          /\ Get(AppliedReported, "success") = Bool(NumberApplied > 0))
\* three fixes: the first and the last fail, the one between them is applied
C18_Witness ==
  /\ pc = "returned" /\ ApplyReturned
  /\ Len(applied) = 3
  /\ applied[1].status = "FAILED" /\ CommandIssuedFor(FixesToApply[1])
  /\ applied[2].status = "APPLIED"
  /\ applied[3].status = "FAILED" /\ ~CommandIssuedFor(FixesToApply[3])
  /\ Get(AppliedReported, "appliedCount") = Num(1)


\* C19: the dialect of a fix is read from its instruction alone: an
\* instruction "<old> -> <new>" (one arrow) makes a sed command on the file
\* of the fix that replaces every <old> by <new>, and an instruction without
\* an arrow is handed to the sandbox as the command it spells.
ArrowCount(text) == Cardinality({i \in DOMAIN text : text[i] = Arrow})
AppliedAsSubstitution(fix) ==
  LET parts == Split(Get(fix, "patch_instructions").v, Arrow) IN
    \E i \in DOMAIN PatchCommands :
      /\ PatchCommands[i].fix = fix
      /\ PatchCommands[i].op = "sed"
      /\ PatchCommands[i].file = Get(fix, "file")
      /\ PatchCommands[i].script =
           [find |-> Trim(parts[1]), replace |-> Trim(parts[2]),
            flags |-> <<"g">>]
AppliedAsCommand(fix) ==
  \E i \in DOMAIN PatchCommands :
    /\ PatchCommands[i].fix = fix
    /\ PatchCommands[i].op = "exec"
    /\ PatchCommands[i].command = Get(fix, "patch_instructions").v
C19_DialectByInstructionText ==
  ApplyJustReturned =>
    \A k \in DOMAIN FixesToApply :
      LET instruction == Get(FixesToApply[k], "patch_instructions") IN
        instruction.t = "string" =>
          /\ ArrowCount(instruction.v) = 1
               => AppliedAsSubstitution(FixesToApply[k])
          /\ ArrowCount(instruction.v) = 0
               => AppliedAsCommand(FixesToApply[k])


\* C20: the comparison healTestErrors returns has before = the number of
\* places of the test logs where "failed" or "error" starts, whatever the
\* case of the letters, after = the same number for the standard output of
\* the new test run (0 when the run gave none), improvement = before - after
\* and improved exactly when after < before.
Occurrences(text, word) ==
  Cardinality({i \in 1..(Len(text) - Len(word) + 1) :
                 \A j \in DOMAIN word : LowerChar(text[i + j - 1]) = word[j]})
FailureTokens(text) ==
  Occurrences(text, <<"f","a","i","l","e","d">>)
    + Occurrences(text, <<"e","r","r","o","r">>)
ComparisonReturned ==
  /\ pc \in {"commit", "returned"}
  /\ ApplyReturned
  /\ Get(Get(response, "autoApplyResult"), "comparison") # Null
Comparison == Get(Get(response, "autoApplyResult"), "comparison")
OutputOf(results) ==
  IF Get(results, "stdout") = Undefined THEN <<>> ELSE Get(results, "stdout").v
IsNoOpFix(fix) ==
  LET instruction == Get(fix, "patch_instructions") IN
    /\ instruction.t = "string"
    /\ ArrowCount(instruction.v) = 1
    /\ LET parts == Split(instruction.v, Arrow)
       IN Trim(parts[1]) = Trim(parts[2])
OnlyNoOpFixesApplied ==
  /\ pc = "returned"
  /\ ApplyReturned
  /\ \A k \in DOMAIN FixesToApply : IsNoOpFix(FixesToApply[k])
  /\ \A k \in DOMAIN applied : applied[k].status = "APPLIED"
C21_NoOpPatchChangesNothing ==
  OnlyNoOpFixesApplied =>
    /\ \A name \in DOMAIN files : files[name].tree = Checkout[name].tree
    /\ Comparison # Null
    /\ Comparison.before = Comparison.after
    /\ Comparison.improvement = 0
    /\ ~Comparison.improved


\* C22: healTestErrors commits at most once, and only when a fix was
\* applied, the tests were then run again, the comparison reported
\* improved = true and the caller gave a commit message; the committed text
\* of a file changes in no other step.
CommitCommands == SelectSeq(shellLog, LAMBDA c : c.op = "commit")
CommitIndex == CHOOSE i \in DOMAIN shellLog : shellLog[i].op = "commit"
CommitInOrder ==
  \E i, j \in DOMAIN shellLog :
    /\ i < j /\ j < CommitIndex
    /\ IsPatchCommand(shellLog[i])
    /\ shellLog[j].op = "test"
    /\ \A k \in DOMAIN shellLog : IsPatchCommand(shellLog[k]) => k < j
HeadsChange == \E name \in DOMAIN files : files'[name].head # files[name].head
C22_CommitOnlyOnImprovement ==
  /\ [](Len(CommitCommands) <= 1)
  /\ [](CommitCommands # <<>> =>
          /\ CommitInOrder
          /\ NumberApplied > 0
          /\ tested # Undefined
          /\ Comparison # Null /\ Comparison.improved
          /\ Comparison.after < Comparison.before
          /\ Truthy(options.commitMessage)
          /\ CommitCommands[1].message = options.commitMessage)
  /\ [][HeadsChange =>
          (pc = "commit" /\ Len(CommitCommands') = Len(CommitCommands) + 1)]_vars
\* a commit that succeeded and moved the committed text of a file
C22_Witness ==
  /\ pc = "returned"
  /\ Len(CommitCommands) = 1
  /\ Get(Get(response, "commitResult"), "success") = Bool(TRUE)
  /\ \E name \in DOMAIN files : files[name].head # Checkout[name].head


\* C23: healTestErrors never rolls back: whatever was applied and however
\* the tests came out, no rollback command is issued before the call has
\* returned and the working tree of a file goes back to its committed text
\* only in a step that issues a rollback command, which is the call of
\* rollbackChanges by the user of the module.
RollbackCommands == SelectSeq(shellLog, LAMBDA c : c.op = "rollback")
TreeRestored ==
  \E name \in DOMAIN files :
    /\ files[name].tree # files[name].head
    /\ files'[name].tree = files[name].head
C23_RollbackNeverAutomatic ==
  /\ [](pc # "rolledBack" => RollbackCommands = <<>>)
  /\ [][RollbackCommands' # RollbackCommands => pc = "returned"]_vars
  /\ [][TreeRestored => RollbackCommands' # RollbackCommands]_vars
\* the changed text is still in the working tree when healTestErrors has
\* returned without improvement and without commit
C23_Witness ==
  /\ pc = "returned"
  /\ ApplyReturned
  /\ Comparison # Null /\ ~Comparison.improved
  /\ CommitCommands = <<>>
  /\ \E name \in DOMAIN files : files[name].tree # files[name].head


InLoopBody == loopPc \in {"readLog", "post", "heal", "retest"}
LoopDone == loopPc = "done"
FirstPipelineFoundNoFix ==
  /\ LoopDone
  /\ options = LoopOptions(1)
  /\ CanGet(Get(response, "statistics"))
  /\ finalFixes = <<>>
C25_NoFixesEndsTheSession ==
  FirstPipelineFoundNoFix =>
    /\ finalStatus = FAILED
    /\ shellLog = <<>> /\ applied = <<>> /\ tested = Undefined
    /\ iteration = 1 /\ ~testsPassed
    /\ logFile = LogFileOf(0, OneFailed)

\* C26: the session ends with one status that tells why the loop stopped:
\* 'healed' exactly when a re-run of the tests succeeded, 'partial' exactly
\* when the budget ran out with the tests failing, 'failed' exactly when a
\* heal response reported no fixes applied, 'error' exactly when a request
\* failed; a status once set is not replaced.
BudgetRanOut == iteration > maxIterations /\ ~testsPassed
C26_OneTerminalOutcome ==
  /\ [](LoopDone => finalStatus \in {HEALED, PARTIAL, FAILED, ERROR})
  /\ [](LoopDone => (finalStatus = HEALED <=> testsPassed))
  /\ [](LoopDone => (finalStatus = PARTIAL <=> BudgetRanOut))
  /\ [][finalStatus # Null => finalStatus' = finalStatus]_vars

\* C27: when the heal response of an iteration before the last shows that
\* fixes were applied and that the tests run after them still fail, the loop
\* does not end: it goes on to the test runner, and a failing run there
\* makes it take the new log and start the next iteration.
FixesAppliedTestsStillFail ==
  /\ loopPc = "heal" /\ pc = "returned"
  /\ iteration < maxIterations
  /\ NumberApplied > 0
  /\ tested # Undefined /\ Get(tested, "success") = Bool(FALSE)
C27_PersistingFailureOnlyCostsBudget ==
  [][FixesAppliedTestsStillFail => loopPc' = "retest"]_vars


(***************************************************************************)
(* The server under several healing requests.  healTestErrors_Controller   *)
(* keeps no record of the containers being healed: every request runs      *)
(* healTestErrors, and Node interleaves the requests at their awaits (the  *)
(* graph, applyFixesToContainer, reRunTests, commitChanges).               *)
(***************************************************************************)
MaxRequests == 2

OtherContainer == Str(<<"c","2">>)
Containers == {Container, OtherContainer}

\* the positions of a request between applyFixesAndVerify's first await and
\* the comparison, which is computed when reRunTests returns
ApplyCycle == {"apply", "retest"}

\* POST /api/healing/heal arrives with logs; the controller calls
\* healTestErrors, which awaits runAgentGraph
HealRequestArrives ==
  /\ Len(cycles) < MaxRequests
  /\ \E c \in Containers, auto \in BOOLEAN, msg \in BOOLEAN :
       cycles' = Append(cycles, [containerName |-> c, autoApply |-> auto,
                                 commitMessage |-> msg,
                                 commitResult |-> FALSE,
                                 phase |-> "pipeline"])
  /\ UNCHANGED <<pc, graphVars, callVars, healVars, files, loopVars>>

\* runAgentGraph has returned: the auto-apply branch is taken or not
PipelineReturns(r) ==
  /\ cycles[r].phase = "pipeline"
  /\ \E anyFix \in BOOLEAN :
       cycles' = [cycles EXCEPT ![r].phase =
                    IF cycles[r].autoApply /\ anyFix THEN "apply"
                    ELSE "responded"]
  /\ UNCHANGED <<pc, graphVars, callVars, healVars, files, loopVars>>

\* applyFixesToContainer has returned: applyFixesAndVerify awaits reRunTests
ApplyReturns(r) ==
  /\ cycles[r].phase = "apply"
  /\ cycles' = [cycles EXCEPT ![r].phase = "retest"]
  /\ UNCHANGED <<pc, graphVars, callVars, healVars, files, loopVars>>

\* reRunTests has returned: the comparison is computed at once, and
\* commitChanges is awaited when it improved and a message was given
RetestReturns(r) ==
  /\ cycles[r].phase = "retest"
  /\ \E improved \in BOOLEAN :
       cycles' = [cycles EXCEPT ![r].phase =
                    IF improved /\ cycles[r].commitMessage THEN "commit"
                    ELSE "responded"]
  /\ UNCHANGED <<pc, graphVars, callVars, healVars, files, loopVars>>

\* commitChanges has returned: the response carries its result
CommitReturns(r) ==
  /\ cycles[r].phase = "commit"
  /\ cycles' = [cycles EXCEPT ![r].phase = "responded",
                              ![r].commitResult = TRUE]
  /\ UNCHANGED <<pc, graphVars, callVars, healVars, files, loopVars>>

InitServer ==
  /\ pc = "idle"
  /\ InitialState
  /\ env = "service"
  /\ testLogs = Undefined
  /\ options = DefaultOptions
  /\ NotCalled
  /\ files = Checkout
  /\ NoSession

NextServer ==
  \/ HealRequestArrives
  \/ \E r \in DOMAIN cycles : PipelineReturns(r)
  \/ \E r \in DOMAIN cycles : ApplyReturns(r)
  \/ \E r \in DOMAIN cycles : RetestReturns(r)
  \/ \E r \in DOMAIN cycles : CommitReturns(r)

SpecServer == InitServer /\ [][NextServer]_vars

\* C28: at any time at most one pipeline-and-apply cycle is in flight per
\* sandbox: two requests that name the same container are never both in
\* the apply / re-test / compare steps.
CyclesOverlap(a, b) ==
  /\ a # b
  /\ cycles[a].containerName = cycles[b].containerName
  /\ cycles[a].phase \in ApplyCycle
  /\ cycles[b].phase \in ApplyCycle
C28_OneCyclePerSandbox ==
  \A a \in DOMAIN cycles, b \in DOMAIN cycles : ~CyclesOverlap(a, b)


(***************************************************************************)
(* sanitize of the test-runner controller, and healTestErrors called with  *)
(* a work directory that sanitize would refuse.                            *)
(***************************************************************************)
\* the characters of the class [a-zA-Z0-9_\-./:\[\] ]
AllowedChars ==
  {LowerAlphabet[i] : i \in DOMAIN LowerAlphabet}
    \cup {UpperAlphabet[i] : i \in DOMAIN UpperAlphabet}
    \cup {Digits[i] : i \in DOMAIN Digits}
    \cup {"_", "-", ".", "/", ":", "[", "]", " "}

\* variant: the semicolon is in the class
sanitizeWithSemicolon(input) ==
  IF input.t # "string" THEN Throw
  ELSE IF ~(/\ Len(input.v) >= 1
            /\ \A i \in DOMAIN input.v : input.v[i] \in AllowedChars \cup {";"})
    THEN Throw
  ELSE Ret(Str(Trim(input.v)))

\* sanitize: the type test, the test of /^[...]+$/ and input.trim()
sanitize(input) ==
  IF input.t # "string" THEN Throw
  ELSE IF ~(/\ Len(input.v) >= 1
            /\ \A i \in DOMAIN input.v : input.v[i] \in AllowedChars)
    THEN Throw
  ELSE Ret(Str(Trim(input.v)))

\* a directory name the allow-list does not cover
UnlistedWorkDir == Str(<<"/","a","p","p","+">>)
UnlistedOptions ==
  {[o EXCEPT !.workDir = UnlistedWorkDir] : o \in SandboxOptions}

InitUnlisted ==
  /\ pc = "END"
  /\ stageLog = <<"extract", "classify", "patch", "verify">>
  /\ \E n \in 0..MaxPatches :
       \E list \in {Mixed(n)} :
         \E answers \in [1..n -> SandboxItemAnswers] :
           /\ failures = Arr(list)
           /\ classifiedFailures = ClassifiedBy(list, answers)
           /\ generatedPatches = PatchedBy(list, answers)
           /\ verifiedPatches = VerifiedBy(list, answers)
           /\ finalFixes = SelectSeq(VerifiedBy(list, answers), IsApprovedPatch)
           /\ processedCount = n
           /\ lastCall =
                IF n > 0 THEN NoCall
                ELSE [node |-> "extract", index |-> 0,
                      outcome |-> Response(JsonText(FALSE, Arr(list)))]
  /\ fanout = "none"
  /\ tasks = <<>>
  /\ env = "sandbox"
  /\ testLogs = Str(OneFailed)
  /\ options \in UnlistedOptions
  /\ NotCalled
  /\ files = Checkout
  /\ NoSession

SpecUnlisted == InitUnlisted /\ [][NextSandbox]_vars

\* C29: every container id, work directory and file path of a command given
\* to the shell has passed sanitize before the command was issued; a value
\* with a character outside the allow-list leads to no command at all.
Validated(value) == ~sanitize(value).throws
ValuesOf(cmd) ==
  {cmd.container}
    \cup (IF "workDir" \in DOMAIN cmd THEN {cmd.workDir} ELSE {})
    \cup (IF "path" \in DOMAIN cmd THEN {cmd.path} ELSE {})
    \cup (IF "file" \in DOMAIN cmd THEN {cmd.file} ELSE {})
C29_ShellValuesAreValidated ==
  \A i \in DOMAIN shellLog : \A value \in ValuesOf(shellLog[i]) :
    Validated(value)


(***************************************************************************)
(* The endpoints that validate: runTestsInSandbox of the test runner and   *)
(* execInSandbox, destroySandbox, getSandboxStatus of the sandbox          *)
(* controller.  options holds the request, shellLog the commands handed to *)
(* execPromise, response the status sent.  The sandbox controller's own    *)
(* sanitize is taken to be the one of the test runner.                     *)
(***************************************************************************)
MaxNameLen == 2

NameChars == {"a", "Z", "7", "_", ";", " ", "$"}
RECURSIVE StringsUpTo(_)
StringsUpTo(n) ==
  IF n = 0 THEN {<<>>}
  ELSE StringsUpTo(n - 1) \cup
         {Append(s, c) : s \in {t \in StringsUpTo(n - 1) : Len(t) = n - 1},
                         c \in NameChars}
InjectionName == Str(<<"l","s",";"," ","r","m"," ","-","r","f"," ","/">>)
\* a route parameter is a non-empty string, a body field any JSON value
ParamNames ==
  {Str(s) : s \in StringsUpTo(MaxNameLen) \ {<<>>}}
    \cup {Container, InjectionName}
BodyNames == ParamNames \cup {Str(<<>>), Num(1), Null, Undefined}
BodyWorkDirs ==
  {WorkDir, UnlistedWorkDir, Str(<<" ">>), Str(<<>>), Num(7), Undefined}
BodyCommands == {Str(<<"l","s">>), Undefined}
DefaultWorkDir == Str(<<"/","w","o","r","k","s","p","a","c","e">>)

\* what the model answers when asked for the configuration file and for the
\* test command: the call fails, or some text (trimmed by the caller)
PackageJson == <<"p","a","c","k","a","g","e",".","j","s","o","n">>
ConfigFileAnswers ==
  {Throw, Ret(Str(<<>>)), Ret(Str(<<"N","O","N","E">>)), Ret(Str(PackageJson)),
   Ret(Str(<<"a",";","b">>))}
NoTestCommandFound ==
  <<"N","O","_","T","E","S","T","_","C","O","M","M","A","N","D","_",
    "F","O","U","N","D">>
TestCommandAnswers ==
  {Throw, Ret(Str(<<>>)), Ret(Str(NoTestCommandFound)), Ret(Str(NpmTest))}

Status(code) == Obj([status |-> Num(code)])
Responds(code) ==
  /\ response' = Status(code)
  /\ pc' = "responded"

\* runTestsInSandbox up to the await of getDirectoryStructure
RunTestsInSandbox ==
  /\ pc = "runTests"
  /\ IF ~Truthy(options.containerName) \/ ~Truthy(options.workDir)
       THEN Responds(400) /\ UNCHANGED shellLog
     ELSE IF \/ sanitize(options.containerName).throws
             \/ sanitize(options.workDir).throws
       THEN Responds(500) /\ UNCHANGED shellLog
     ELSE /\ shellLog' = Append(shellLog,
               [op |-> "find", container |-> options.containerName,
                workDir |-> options.workDir])
          /\ pc' = "step1"
          /\ UNCHANGED response
  /\ UNCHANGED <<graphVars, callVars, running, applied, tested, files,
                 sessionVars>>

\* steps 2 and 3 up to the await of readFileFromContainer's command
RunTestsFindConfig ==
  /\ pc = "step1"
  /\ \E find \in {Throw, Output(PackageJson, <<>>)}, answer \in ConfigFileAnswers :
       IF find.throws \/ answer.throws
         THEN Responds(500) /\ UNCHANGED shellLog
       ELSE IF \/ ~Truthy(answer.val)
               \/ Includes(answer.val.v, <<"N","O","N","E">>)
         THEN Responds(422) /\ UNCHANGED shellLog
       ELSE IF sanitize(answer.val).throws
         THEN Responds(500) /\ UNCHANGED shellLog
       ELSE /\ shellLog' = Append(shellLog,
                 [op |-> "cat", container |-> options.containerName,
                  file |-> sanitize(answer.val).val])
            /\ pc' = "step3"
            /\ UNCHANGED response
  /\ UNCHANGED <<graphVars, callVars, running, applied, tested, files,
                 sessionVars>>

\* steps 4 and 5: the test command is asked for and run after the two
\* installations, whose failures are ignored
RunTestsRun ==
  /\ pc = "step3"
  /\ \E cat \in {Throw, Output(<<"{","}">>, <<>>)}, answer \in TestCommandAnswers,
        run \in TestRuns :
       IF cat.throws \/ answer.throws
         THEN Responds(500) /\ UNCHANGED shellLog
       ELSE IF ~Truthy(answer.val) \/ answer.val.v = NoTestCommandFound
         THEN Responds(422) /\ UNCHANGED shellLog
       ELSE /\ shellLog' = shellLog \o
                 <<[op |-> "npm install", container |-> options.containerName,
                    workDir |-> options.workDir],
                   [op |-> "pip install", container |-> options.containerName,
                    workDir |-> options.workDir],
                   [op |-> "test", container |-> options.containerName,
                    workDir |-> options.workDir,
                    testCommand |-> answer.val.v]>>
            /\ response' =
                 Obj([status |-> Num(200),
                      output |-> Obj([exitCode |->
                                        Num(IF run.throws THEN 1 ELSE 0)])])
            /\ pc' = "responded"
  /\ UNCHANGED <<graphVars, callVars, running, applied, tested, files,
                 sessionVars>>

\* execInSandbox
ExecInSandbox ==
  /\ pc = "exec"
  /\ IF sanitize(options.containerName).throws
       THEN Responds(500) /\ UNCHANGED shellLog
     ELSE IF ~Truthy(options.command) \/ options.command.t # "string"
       THEN Responds(500) /\ UNCHANGED shellLog
     ELSE IF Truthy(options.workDir) /\ sanitize(options.workDir).throws
       THEN Responds(500) /\ UNCHANGED shellLog
     ELSE /\ shellLog' = Append(shellLog,
               [op |-> "exec", container |-> options.containerName,
                workDir |-> IF Truthy(options.workDir)
                              THEN sanitize(options.workDir).val
                              ELSE DefaultWorkDir,
                command |-> options.command.v])
          /\ \E run \in {Throw, Output(<<>>, <<>>)} :
               Responds(IF run.throws THEN 500 ELSE 200)
  /\ UNCHANGED <<graphVars, callVars, running, applied, tested, files,
                 sessionVars>>

\* destroySandbox
DestroySandbox ==
  /\ pc = "destroy"
  /\ IF sanitize(options.containerName).throws
       THEN Responds(500) /\ UNCHANGED shellLog
     ELSE /\ shellLog' = Append(shellLog,
               [op |-> "rm", container |-> options.containerName])
          /\ \E run \in {Throw, Output(<<>>, <<>>)} :
               Responds(IF run.throws THEN 500 ELSE 200)
  /\ UNCHANGED <<graphVars, callVars, running, applied, tested, files,
                 sessionVars>>

\* getSandboxStatus
GetSandboxStatus ==
  /\ pc = "status"
  /\ IF sanitize(options.containerName).throws
       THEN Responds(500) /\ UNCHANGED shellLog
     ELSE /\ shellLog' = Append(shellLog,
               [op |-> "inspect", container |-> options.containerName])
          /\ \E run \in {Throw, Output(<<>>, <<>>)} :
               Responds(IF run.throws THEN 500 ELSE 200)
  /\ UNCHANGED <<graphVars, callVars, running, applied, tested, files,
                 sessionVars>>

InitEndpoints ==
  /\ pc \in {"runTests", "exec", "destroy", "status"}
  /\ InitialState
  /\ env = "service"
  /\ testLogs = Undefined
  /\ \E name \in BodyNames, dir \in BodyWorkDirs, cmd \in BodyCommands :
       /\ pc # "exec" => name \in ParamNames /\ cmd = Undefined
       /\ pc \in {"destroy", "status"} => dir = Undefined
       /\ options = [containerName |-> name, workDir |-> dir, command |-> cmd]
  /\ NotCalled
  /\ files = Checkout
  /\ NoSession

NextEndpoints ==
  \/ RunTestsInSandbox
  \/ RunTestsFindConfig
  \/ RunTestsRun
  \/ ExecInSandbox
  \/ DestroySandbox
  \/ GetSandboxStatus

SpecEndpoints == InitEndpoints /\ [][NextEndpoints]_vars

\* C30: sanitize accepts exactly the non-empty strings made only of letters,
\* digits and the characters _ - . / : [ ] and space and throws for every
\* other input; a request whose container name is refused, "ls; rm -rf /"
\* among them, is answered with an error before any shell command is issued,
\* and so is a request whose work directory is given and refused.
IsLetter(c) == LowerChar(c) # c \/ UpperChar(c) # c
IsDigit(c) == \E i \in DOMAIN Digits : Digits[i] = c
IsListed(c) ==
  IsLetter(c) \/ IsDigit(c) \/ c \in {"_", "-", ".", "/", ":", "[", "]", " "}
OnAllowList(value) ==
  /\ value.t = "string"
  /\ value.v # <<>>
  /\ \A i \in DOMAIN value.v : IsListed(value.v[i])
StatusSent == Get(response, "status")
C30_SanitizeAcceptsTheAllowListOnly ==
  /\ \A value \in {options.containerName, options.workDir, InjectionName} :
       sanitize(value).throws <=> ~OnAllowList(value)
  /\ ~OnAllowList(options.containerName) =>
       /\ shellLog = <<>>
       /\ pc = "responded" => StatusSent \in {Num(400), Num(500)}
  /\ (shellLog # <<>> /\ Truthy(options.workDir)) =>
       OnAllowList(options.workDir)
C30_Witness ==
  /\ options.containerName = InjectionName
  /\ sanitize(InjectionName).throws
  /\ pc = "responded"
  /\ StatusSent = Num(500)
  /\ shellLog = <<>>


\* C31: healTestErrors invokes the apply engine if and only if autoApply is
\* true, finalFixes is not empty and both containerName and workDir are
\* given; with the default options no command is run in the sandbox
\* whatever the pipeline approved.
AutoApplyCondition ==
  /\ options.autoApply = Bool(TRUE)
  /\ Len(finalFixes) > 0
  /\ Truthy(options.containerName)
  /\ Truthy(options.workDir)
ApplyEngineInvoked ==
  \/ pc \in {"apply", "retest", "compare", "commit"}
  \/ applied # <<>>
  \/ shellLog # <<>>
C31_ApplyOnlyWhenAsked ==
  /\ [](ApplyEngineInvoked => AutoApplyCondition)
  /\ [][(pc = "END" /\ pc' # "END") =>
          IF AutoApplyCondition /\ ~FormatReport(WorkflowResult,
                                                  options.reportFormat).throws
            THEN pc' = "apply" ELSE pc' = "returned"]_vars
  /\ [](options.autoApply = Bool(FALSE) =>
          (shellLog = <<>> /\ applied = <<>> /\ tested = Undefined))
\* the default options, approved fixes, and healTestErrors has returned
C31_Witness ==
  /\ options = DefaultOptions
  /\ pc = "returned"
  /\ Len(finalFixes) > 0
  /\ Get(response, "success") = Bool(TRUE)
  /\ shellLog = <<>>


\* C32: in the result of healTestErrors with auto-apply, fixesApplied is
\* true if and only if at least one fix was applied to the container with
\* success (appliedCount >= 1).
AutoApplyReturned ==
  /\ pc = "returned"
  /\ applied # <<>>
  /\ CanGet(Get(response, "autoApplyResult"))
C32_FixesAppliedIffOneApplied ==
  AutoApplyReturned =>
    (Get(response, "fixesApplied") = Bool(TRUE) <=> NumberApplied >= 1)


\* C33: every classified failure has a category of the closed enumeration
\* (LINTING, SYNTAX, LOGIC, TYPE_ERROR, IMPORT, INDENTATION, RUNTIME,
\* CONFIG) or the sentinel UNKNOWN; an answer of the classifier that is none
\* of the categories is stored as UNKNOWN.
BugCategories ==
  {<<"L","I","N","T","I","N","G">>, <<"S","Y","N","T","A","X">>, LOGIC,
   <<"T","Y","P","E","_","E","R","R","O","R">>, <<"I","M","P","O","R","T">>,
   <<"I","N","D","E","N","T","A","T","I","O","N">>,
   <<"R","U","N","T","I","M","E">>, <<"C","O","N","F","I","G">>}
IsCategory(v) == v = UNKNOWN \/ (v.t = "string" /\ v.v \in BugCategories)
C33_CategoryFromTheEnumeration ==
  \A i \in DOMAIN classifiedFailures :
    IsCategory(Get(classifiedFailures[i], "bug_type"))


\* C34: no stage changes what an earlier stage produced: while Classify,
\* Patch and Verify run, failures, classifiedFailures and generatedPatches
\* stay as their stages left them, and each record of a later stage has
\* every field of the record it was made from, with the same value, plus
\* the fields of its own stage.
Extends(later, earlier, added) ==
  /\ DOMAIN Fields(later) = DOMAIN Fields(earlier) \cup added
  /\ \A k \in DOMAIN Fields(earlier) \ added :
       Fields(later)[k] = Fields(earlier)[k]
ListExtends(laters, earliers, added) ==
  /\ Len(laters) <= Len(earliers)
  /\ \A i \in DOMAIN laters : Extends(laters[i], earliers[i], added)
C34_AppendOnlyChain ==
  /\ [](classifiedFailures # <<>> =>
          ListExtends(classifiedFailures, failures.v, {"bug_type"}))
  /\ [](ListExtends(generatedPatches, classifiedFailures,
                    {"patch_instructions", "required_dashboard_output"}))
  /\ [](ListExtends(verifiedPatches, generatedPatches,
                    {"verification_status"}))
  /\ [][(pc \in {"classify", "patch", "verify"}) =>
          failures' = failures]_vars
  /\ [][(pc \in {"patch", "verify"}) =>
          classifiedFailures' = classifiedFailures]_vars
  /\ [][(pc = "verify") => generatedPatches' = generatedPatches]_vars
\* a run of two different items has returned, each record with the fields
\* of the three stages
C34_Witness ==
  /\ pc = "END"
  /\ Len(verifiedPatches) = 2
  /\ failures.v[1] # failures.v[2]
  /\ \A i \in 1..2 :
       /\ DOMAIN Fields(failures.v[i]) = {"file", "line", "error_message"}
       /\ DOMAIN Fields(verifiedPatches[i]) =
            {"file", "line", "error_message", "bug_type",
             "patch_instructions", "required_dashboard_output",
             "verification_status"}


\* C35: after the patches are applied the test command is run again and the
\* after-count of the comparison is the number of failure tokens of the
\* whole output of that run, standard output and standard error, also when
\* the command ends with an exit code that is not 0.
CombinedOutput(results) ==
  Get(results, "stdout").v \o <<"\n">> \o Get(results, "stderr").v
TestsStillFail ==
  \E name \in DOMAIN files : Includes(files[name].tree, BuggyText)
C35_AfterCountOverCombinedOutput ==
  ComparisonReturned =>
    /\ shellLog[Len(PatchCommands) + 2].op = "test"
    /\ Get(tested, "stdout") # Undefined =>
         Comparison.after = FailureTokens(CombinedOutput(tested))
    /\ (Get(tested, "stdout") = Undefined /\ TestsStillFail) =>
         Comparison.after >= 1


\* C36: a re-run of the tests that ends in an error (the command cannot be
\* run, runs out of time or exits with a code that is not 0, so that no
\* output is kept) is never reported as an improvement: the result of
\* applyFixesAndVerify has success = false and improved = false, and no
\* commit follows.
RerunErrored == tested # Undefined /\ Get(tested, "error") # Undefined
C36_ErroredRerunIsNoImprovement ==
  (ComparisonReturned /\ RerunErrored) =>
    /\ ~Comparison.improved
    /\ Get(Get(response, "autoApplyResult"), "success") = Bool(FALSE)
    /\ Get(response, "fixesApplied") = Bool(FALSE)
    /\ pc # "commit"
    /\ CommitCommands = <<>>


\* C37: when no fix was applied with success (appliedCount = 0),
\* applyFixesAndVerify neither runs the tests again nor compares: it returns
\* success = false with tested = null and comparison = null, and
\* healTestErrors makes no commit.
NothingApplied ==
  /\ ApplyReturned
  /\ applied # <<>>
  /\ NumberApplied = 0
AfterApplyCommands ==
  SelectSeq(shellLog, LAMBDA c : c.op \in {"cat", "test", "commit"})
C37_NothingAppliedNothingTested ==
  /\ [](NothingApplied =>
          /\ pc = "returned"
          /\ AfterApplyCommands = <<>>
          /\ tested = Undefined
          /\ Get(Get(response, "autoApplyResult"), "success") = Bool(FALSE)
          /\ Get(Get(response, "autoApplyResult"), "tested") = Null
          /\ Get(Get(response, "autoApplyResult"), "comparison") = Null
          /\ Get(response, "commitResult") = Undefined)
  /\ [][(pc = "apply" /\ pc' # "apply" /\ NumberApplied = 0) =>
          pc' = "returned"]_vars
\* two fixes were attempted, a command was run for one of them at least,
\* and none was applied
C37_Witness ==
  /\ NothingApplied
  /\ Len(applied) >= 2
  /\ PatchCommands # <<>>
  /\ pc = "returned"


\* C38: the Patch Generator falls back to its sentinel on every answer that
\* cannot be parsed or lacks a string patch_instructions or
\* required_dashboard_output: every generated patch has instructions and an
\* expected output that are strings.
HasStringFields(patch) ==
  /\ Get(patch, "patch_instructions").t = "string"
  /\ Get(patch, "required_dashboard_output").t = "string"
C38_PatchesHaveStringInstructions ==
  \A i \in DOMAIN generatedPatches : HasStringFields(generatedPatches[i])


\* C39: a patch whose instructions are the fallback sentinel of the Patch
\* Generator is never executed in the sandbox: whatever the verifier
\* answers it is not among finalFixes, and no command made from the
\* sentinel text is run by the apply engine.
IsSentinelPatch(patch) ==
  /\ Get(patch, "patch_instructions") = ReviewOf(patch)
  /\ Get(patch, "required_dashboard_output") = ManualReviewNeeded
SentinelInFinalFixes ==
  \E i \in DOMAIN finalFixes : IsSentinelPatch(finalFixes[i])
SentinelCommandRun ==
  \E i \in DOMAIN shellLog :
    /\ IsPatchCommand(shellLog[i])
    /\ IsSentinelPatch(shellLog[i].fix)
C39_SentinelPatchNeverExecuted ==
  /\ ~SentinelInFinalFixes
  /\ ~SentinelCommandRun

====
